---- MODULE Spec2Model ----
(***************************************************************************)
(* A model of bunker-convert's pipeline execution engine: the device       *)
(* scheduler (src/src/scheduler.rs), the metrics collector and its scoped  *)
(* stage timer (src/src/observability.rs), the image stages                *)
(* (src/src/stages/mod.rs), the quality metrics (src/src/quality.rs) and   *)
(* the executor that drives them (src/src/pipeline.rs).                    *)
(*                                                                         *)
(* One executor is built (Init) and then execute() is called on it any     *)
(* number of times.  A call is followed through the positions of its two   *)
(* loops: load an input, start a stage timer, dispatch the stage, evaluate *)
(* the quality gates, return.                                              *)
(***************************************************************************)
EXTENDS Integers, Sequences, FiniteSets, TLC

VARIABLES
    stages,         \* PipelineExecutor.stages
    policy,         \* TaskScheduler.policy
    gpu_available,  \* TaskScheduler.gpu_available
    quality_gates,  \* PipelineExecutor.quality_gates
    metrics,        \* the MetricsSnapshot inside the collector's mutex
    pc,             \* position of the running execute() call, "idle" when none runs
    total,          \* inputs.len() of the slice execute() was called with
    inputs,         \* the elements of that slice the loop has reached
    cur,            \* index in inputs of the input being processed
    si,             \* index in stages of the stage being processed
    artifact,       \* the Artifact of the current input
    timer,          \* the live StageTimer of the current loop iteration
    results,        \* execute()'s local result vector
    returned,       \* what the last finished execute() call returned
    files,          \* the output files written so far
    log,            \* history: the stage attempts of the running (or last) call
    call            \* a call of one of the program's functions outside a run:
                    \* its operands and what it returned

\* the executor, its collector and the run in progress
run == << stages, policy, gpu_available, quality_gates, metrics, pc, total,
          inputs, cur, si, artifact, timer, results, returned, files, log >>

vars == << run, call >>

-----------------------------------------------------------------------------
(* Bounds of the model. *)

MaxStages == 2
MaxInputs == 2
MaxGates == 2
MaxChain == 3

\* Option<T>: None is the empty set, Some(x) the singleton.  Absent labels are
\* the string NoLabel.
None == {}

Some(x) == {x}

Unwrap(o) == CHOOSE x \in o : TRUE

NoLabel == "none"

-----------------------------------------------------------------------------
(* Functions with a growing domain stand for the maps of the program. *)

Put(m, k, v) == [x \in (DOMAIN m) \cup {k} |-> IF x = k THEN v ELSE m[x]]

Get(m, k, default) == IF k \in DOMAIN m THEN m[k] ELSE default

EmptyMap == [x \in {} |-> NoLabel]

\* serde_json::Map::remove
Remove(m, k) == [x \in (DOMAIN m) \ {k} |-> m[x]]

RECURSIVE SeqsUpTo(_, _)
SeqsUpTo(S, n) ==
    IF n = 0 THEN {<< >>}
    ELSE LET shorter == SeqsUpTo(S, n - 1)
         IN  shorter \cup {Append(s, x) : s \in {t \in shorter : Len(t) = n - 1}, x \in S}

-----------------------------------------------------------------------------
(* scheduler.rs *)

DevicePolicy == {"auto", "cpu_only", "gpu_preferred"}

StageDevice == {"Cpu", "Gpu"}

select_device(p, gpu) ==
    CASE p = "cpu_only" -> "Cpu"
      [] p = "gpu_preferred" -> IF gpu THEN "Gpu" ELSE "Cpu"
      [] p = "auto" -> IF gpu THEN "Gpu" ELSE "Cpu"

-----------------------------------------------------------------------------
(* The files the model's inputs are read from.  A readable image file is   *)
(* a solid grey picture: its encoded bytes are described by the codec and  *)
(* the picture they decode to.                                             *)

Image(w, h, lum) == [width |-> w, height |-> h, lum |-> lum]

Bytes(codec, img) == [codec |-> codec, image |-> img]

Garbage == [codec |-> "garbage", image |-> Image(0, 0, 0)]

InputFiles == {"a.png", "b.png", "bad.png", "gone.png"}

file_stem(path) ==
    CASE path = "a.png" -> "a"
      [] path = "b.png" -> "b"
      [] path = "bad.png" -> "bad"
      [] path = "gone.png" -> "gone"

extension(path) == "png"

Readable(path) == path # "gone.png"

fs_read(path) ==
    CASE path = "a.png" -> Bytes("Png", Image(4, 4, 100))
      [] path = "b.png" -> Bytes("Png", Image(4, 4, 101))
      [] OTHER -> Garbage

OutputDirectory == "out"

-----------------------------------------------------------------------------
(* pipeline.rs: errors, Artifact *)

Error(kind, stage, detail) == [kind |-> kind, stage |-> stage, detail |-> detail]

\* serde_json::Value, as far as the program uses it.
JString(s) == [type |-> "string", s |-> s, n |-> 0, b |-> FALSE]

JNumber(n) == [type |-> "number", s |-> "", n |-> n, b |-> FALSE]

JBool(b) == [type |-> "bool", s |-> "", n |-> 0, b |-> b]

as_str(v) == IF v.type = "string" THEN Some(v.s) ELSE None

as_bool(v) == IF v.type = "bool" THEN Some(v.b) ELSE None

\* Artifact::load, after fs::read succeeded
ArtifactLoad(path) ==
    [ input_path |-> path,
      stem |-> file_stem(path),
      data |-> fs_read(path),
      format |-> NoLabel,
      original_image |-> None,
      image |-> None,
      metadata |-> Put(Put(EmptyMap, "input_path", JString(path)),
                       "stem", JString(file_stem(path))) ]

\* No artifact is alive between two inputs.
NoArtifact == None

\* What a stage's run leaves: Ok(()) or Err(err), the artifact and the file
\* system as the stage left them.
Ran(ok, a, f, err) == [ok |-> ok, artifact |-> a, files |-> f, err |-> err]

-----------------------------------------------------------------------------
(* stages/mod.rs: the stage instances a registry builds, and two stages of *)
(* a caller's own (the Stage trait is public) that support other devices   *)
(* than the CPU.                                                           *)

StageOf(kind, name, supports, format, width, height, fit) ==
    [ kind |-> kind, name |-> name, supports |-> supports, format |-> format,
      width |-> width, height |-> height, fit |-> fit, options |-> EmptyMap,
      key |-> NoLabel, value |-> JString(NoLabel) ]

DecodeStage == StageOf("decode", "decode", {"Cpu"}, NoLabel, 0, 0, NoLabel)

ResizeStage(w, h, fit) == StageOf("resize", "resize", {"Cpu"}, NoLabel, w, h, fit)

EncodeStage(format) == StageOf("encode", "encode", {"Cpu"}, format, 0, 0, NoLabel)

\* AnnotateStage { key, value }
AnnotateStage(key, value) ==
    [StageOf("annotate", "annotate", {"Cpu"}, NoLabel, 0, 0, NoLabel)
        EXCEPT !.key = key, !.value = value]

\* EncodeStage { format, extension: None, options }
EncodeStageWith(format, options) == [EncodeStage(format) EXCEPT !.options = options]

CustomStage(name, supports) == StageOf("custom", name, supports, NoLabel, 0, 0, NoLabel)

\* Stage::name
name(stage) == stage.name

\* Stage::supports_device: matches!(device, StageDevice::Cpu) in every stage
\* of the repository
supports_device(stage, device) ==
    IF stage.kind = "custom" THEN device \in stage.supports ELSE device = "Cpu"

\* format_from_label: ImageFormat::from_extension of the normalised label
format_from_label(label) ==
    CASE label = "png" -> Some("Png")
      [] label \in {"jpg", "jpeg"} -> Some("Jpeg")
      [] label = "avif" -> Some("Avif")
      [] OTHER -> None

format_extension(fmt) ==
    CASE fmt = "Png" -> "png"
      [] fmt = "Jpeg" -> "jpg"
      [] fmt = "Avif" -> "avif"
      [] OTHER -> "bin"

\* image::guess_format: the codec of well-formed bytes
guess_format(data) == IF data.codec = "garbage" THEN None ELSE Some(data.codec)

\* infer_format: hint, then the artifact's format, then the input path's
\* extension, then the bytes.  None is the error of the last step.
infer_format(hint, a) ==
    IF hint # NoLabel /\ format_from_label(hint) # None
    THEN format_from_label(hint)
    ELSE IF a.format # NoLabel /\ format_from_label(a.format) # None
    THEN format_from_label(a.format)
    ELSE IF format_from_label(extension(a.input_path)) # None
    THEN format_from_label(extension(a.input_path))
    ELSE guess_format(a.data)

\* image::load_from_memory_with_format.  The build decodes PNG and JPEG; it
\* has an AVIF encoder and no AVIF decoder.
load_from_memory_with_format(data, fmt) ==
    IF data.codec = fmt /\ fmt \in {"Png", "Jpeg"} THEN Some(data.image) ELSE None

\* What the encoder of a format keeps of a picture: PNG all of it, the lossy
\* codecs the grey level rounded down to an even one.
Encoded(img, fmt) ==
    IF fmt = "Png" THEN img ELSE [img EXCEPT !.lum = img.lum - (img.lum % 2)]

\* Result<T> of the option parsers and the encoders: the error, or none
Parsed(err) == [ok |-> err = NoLabel, err |-> err]

\* the ICC profiles on disk
IccFiles == {"srgb.icc"}

\* load_icc_profile: a string is a path that is read, any other value is
\* rejected
load_icc_profile(options) ==
    IF "icc_profile_path" \notin DOMAIN options THEN Parsed(NoLabel)
    ELSE IF options["icc_profile_path"].type = "string"
    THEN IF options["icc_profile_path"].s \in IccFiles
         THEN Parsed(NoLabel) ELSE Parsed("Failed to read ICC profile")
    ELSE Parsed("icc_profile_path must be a string")

\* parse_png_compression
parse_png_compression(options) ==
    IF "compression" \notin DOMAIN options THEN Parsed(NoLabel)
    ELSE LET value == options["compression"] IN
         IF value.type = "string"
         THEN IF value.s \in {"fast", "default", "best"}
              THEN Parsed(NoLabel) ELSE Parsed("Unknown PNG compression profile")
         ELSE IF value.type \in {"number", "bool"}
         THEN Parsed(NoLabel) ELSE Parsed("Unsupported PNG compression value")

\* parse_png_filter
parse_png_filter(options) ==
    IF "filter" \notin DOMAIN options THEN Parsed(NoLabel)
    ELSE LET value == options["filter"] IN
         IF value.type = "string"
         THEN IF value.s \in {"adaptive", "none", "nofilter", "sub", "up",
                              "avg", "average", "paeth"}
              THEN Parsed(NoLabel) ELSE Parsed("Unknown PNG filter")
         ELSE IF value.type = "number"
         THEN IF value.n \in 0..4
              THEN Parsed(NoLabel)
              ELSE Parsed("PNG filter numeric value must be in 0..=4")
         ELSE IF value.type = "bool"
         THEN Parsed(NoLabel) ELSE Parsed("Unsupported PNG filter value")

\* parse_avif_colorspace: a value that is not a string is ignored
parse_avif_colorspace(options) ==
    IF "colorspace" \notin DOMAIN options \/ options["colorspace"].type # "string"
    THEN Parsed(NoLabel)
    ELSE IF options["colorspace"].s \in {"srgb", "bt709", "rec709"}
    THEN Parsed(NoLabel) ELSE Parsed("Unsupported AVIF colorspace")

\* the first error of a list of parses, as the ? operator returns it
FirstError(parses) ==
    IF \A i \in 1..Len(parses) : parses[i].ok THEN Parsed(NoLabel)
    ELSE parses[CHOOSE i \in 1..Len(parses) :
                    /\ ~parses[i].ok
                    /\ \A j \in 1..(i - 1) : parses[j].ok]

\* encode_jpeg, encode_png, encode_avif: the options each encoder parses
\* before it encodes
EncoderOptions(fmt, options) ==
    CASE fmt = "Jpeg" -> FirstError(<< load_icc_profile(options) >>)
      [] fmt = "Png" -> FirstError(<< parse_png_compression(options),
                                      parse_png_filter(options),
                                      load_icc_profile(options) >>)
      [] fmt = "Avif" -> FirstError(<< parse_avif_colorspace(options) >>)
      [] OTHER -> Parsed(NoLabel)

\* the messages of the option parsers that depend on the parameter bag
\* alone; the remaining one depends on the disk
ParameterMessages ==
    { "icc_profile_path must be a string", "Unknown PNG compression profile",
      "Unsupported PNG compression value", "Unknown PNG filter",
      "PNG filter numeric value must be in 0..=4", "Unsupported PNG filter value",
      "Unsupported AVIF colorspace" }

\* encode_with_options: Err of the encoder's option parsing, or the bytes
encode_with_options(img, fmt, options) ==
    LET parsed == EncoderOptions(fmt, options) IN
    [ ok |-> parsed.ok, err |-> parsed.err, bytes |-> Bytes(fmt, Encoded(img, fmt)) ]

\* record_encoder_metadata, for the options of the model
record_encoder_metadata(md, options) ==
    LET icc == IF "icc_profile_path" \in DOMAIN options
                  /\ options["icc_profile_path"].type = "string"
               THEN Put(md, "output.encoder.icc_profile_path", options["icc_profile_path"])
               ELSE md
        color == IF "colorspace" \in DOMAIN options
                    /\ options["colorspace"].type = "string"
                 THEN Put(icc, "output.encoder.colorspace", options["colorspace"])
                 ELSE icc
        comp == IF "compression" \in DOMAIN options
                THEN Put(color, "output.encoder.compression", options["compression"])
                ELSE color
    IN  IF "filter" \in DOMAIN options
        THEN Put(comp, "output.encoder.filter", options["filter"])
        ELSE comp

\* record_dimensions
record_dimensions(md, prefix, img) ==
    LET width_key == IF prefix = "image" THEN "image.width" ELSE "width"
        height_key == IF prefix = "image" THEN "image.height" ELSE "height"
    IN  Put(Put(md, width_key, JNumber(img.width)), height_key, JNumber(img.height))

\* A file name is the sequence of its pieces: a brace, or a run of other
\* characters.  OutputSpec { directory, structure }
OutputSpec(directory, structure) == [directory |-> directory, structure |-> structure]

\* default_output_structure: "{stem}.{ext}"
default_output_structure == << "{", "stem", "}", ".", "{", "ext", "}" >>

\* PipelineContext of the executors of the model
ctx == [output |-> OutputSpec(OutputDirectory, default_output_structure)]

\* str::replace: every match of `from`, found from left to right in the
\* text as it was, is replaced by `to`; the search goes on after the match.
RECURSIVE replace(_, _, _)
replace(text, from, to) ==
    IF Len(text) < Len(from) THEN text
    ELSE IF SubSeq(text, 1, Len(from)) = from
    THEN to \o replace(SubSeq(text, Len(from) + 1, Len(text)), from, to)
    ELSE << Head(text) >> \o replace(Tail(text), from, to)

\* format!("{{{}}}", key)
placeholder(key) == << "{", key, "}" >>

\* resolve_output_path, the loop over the metadata: entries[i] is the i-th
\* pair (key, value) of artifact.metadata.iter()
RECURSIVE replace_metadata(_, _)
replace_metadata(file_name, entries) ==
    IF entries = << >> THEN file_name
    ELSE LET key == Head(entries)[1]
             value == Head(entries)[2]
         IN  replace_metadata(
                 IF value.type = "string"
                 THEN replace(file_name, placeholder(key), value.s)
                 ELSE file_name,
                 Tail(entries))

\* resolve_output_path, the file name: {stem}, then {ext}, then the
\* metadata, each replaced in the result of the replacement before it
resolve_file_name(structure, stem, ext, entries) ==
    replace_metadata(
        replace(replace(structure, placeholder("stem"), stem), placeholder("ext"), ext),
        entries)

\* artifact.metadata.iter() of an executor of the model.  Every metadata
\* string there is one piece without a brace, so that the order of the
\* entries does not change the file name; the order is drawn where it does.
RECURSIVE iter(_)
iter(md) ==
    IF DOMAIN md = {} THEN << >>
    ELSE LET k == CHOOSE k \in DOMAIN md : TRUE
         IN  << << k, [md[k] EXCEPT !.s = << md[k].s >>] >> >> \o iter(Remove(md, k))

\* resolve_output_path: the directory, then the pieces of the file name
resolve_output_path(spec, a, ext) ==
    << spec.directory >>
        \o resolve_file_name(spec.structure, << a.stem >>, << ext >>, iter(a.metadata))

\* DecodeStage::run
DecodeRun(stage, a, f) ==
    LET fmt == infer_format(stage.format, a) IN
    IF fmt = None
    THEN Ran(FALSE, a, f, Error("DecodeError", "decode", "Unable to infer image format"))
    ELSE LET decoded == load_from_memory_with_format(a.data, Unwrap(fmt)) IN
         IF decoded = None
         THEN Ran(FALSE, a, f, Error("DecodeError", "decode", "Failed to decode image"))
         ELSE Ran(TRUE,
                  [a EXCEPT !.original_image = decoded,
                            !.image = decoded,
                            !.format = format_extension(Unwrap(fmt)),
                            !.metadata = Put(Put(@, "image.width", JNumber(Unwrap(decoded).width)),
                                             "image.height", JNumber(Unwrap(decoded).height))],
                  f, Error(NoLabel, NoLabel, NoLabel))

\* DynamicImage::resize / resize_exact / resize_to_fill: the dimensions of
\* the result; a solid picture keeps its grey level.
Resized(img, w, h, fit) ==
    IF fit \in {"exact", "cover"} THEN [img EXCEPT !.width = w, !.height = h]
    ELSE IF w * img.height <= h * img.width
    THEN [img EXCEPT !.width = w,
                     !.height = IF (img.height * w) \div img.width < 1 THEN 1
                                ELSE (img.height * w) \div img.width]
    ELSE [img EXCEPT !.height = h,
                     !.width = IF (img.width * h) \div img.height < 1 THEN 1
                               ELSE (img.width * h) \div img.height]

\* a resize that records its parameters and succeeds without a picture
ResizeRun_Lenient(stage, a, f) ==
    Ran(TRUE,
        [a EXCEPT !.metadata = Put(Put(@, "resize.width", JNumber(stage.width)),
                                   "resize.height", JNumber(stage.height))],
        f, Error(NoLabel, NoLabel, NoLabel))

\* ResizeStage::run
ResizeRun(stage, a, f) ==
    IF a.image = None
    THEN Ran(FALSE, a, f, Error("InvariantError", "resize", "resize stage requires a decoded image"))
    ELSE LET resized == Resized(Unwrap(a.image), stage.width, stage.height, stage.fit) IN
         Ran(TRUE,
             [a EXCEPT !.image = Some(resized),
                       !.metadata = record_dimensions(
                           Put(Put(Put(Put(@, "resize.width", JNumber(stage.width)),
                                       "resize.height", JNumber(stage.height)),
                                   "resize.filter", JString("catmullrom")),
                               "resize.mode", JString(stage.fit)),
                           "image", resized)],
             f, Error(NoLabel, NoLabel, NoLabel))

\* the match on the decode of the written bytes that records a failure as
\* a plain warning and nothing else
Redecode_WarningOnly(md, buffer, image_format) ==
    LET decoded == load_from_memory_with_format(buffer, image_format) IN
    IF decoded # None
    THEN [ image |-> decoded,
           metadata |-> record_dimensions(Put(md, "output.decode_supported", JBool(TRUE)),
                                          "image", Unwrap(decoded)) ]
    ELSE [ image |-> None,
           metadata |-> Put(md, "output.decode_warning", JString("decoder unavailable")) ]

\* EncodeStage::run, the match on image::load_from_memory_with_format of
\* the written bytes: the image and the metadata it leaves
Redecode(md, buffer, image_format) ==
    LET decoded == load_from_memory_with_format(buffer, image_format) IN
    IF decoded # None
    THEN [ image |-> decoded,
           metadata |-> record_dimensions(Put(md, "output.decode_supported", JBool(TRUE)),
                                          "image", Unwrap(decoded)) ]
    ELSE [ image |-> None,
           metadata |-> Put(Put(md, "output.decode_supported", JBool(FALSE)),
                            "output.decode_warning", JString("decoder unavailable")) ]

\* EncodeStage::run.  The format label is set before the image is required;
\* the file is written before the bytes are decoded again.
EncodeRun(stage, a, f) ==
    LET fmt == infer_format(stage.format, a) IN
    IF fmt = None
    THEN Ran(FALSE, a, f, Error("EncodeError", "encode", "Unable to infer image format"))
    ELSE
    LET image_format == Unwrap(fmt)
        label == format_extension(image_format)
        labelled == [a EXCEPT !.format = label]
        ext == label
    IN
    IF a.image = None
    THEN Ran(FALSE, labelled, f,
             Error("InvariantError", "encode", "encode stage requires a decoded image"))
    ELSE
    LET encoded == encode_with_options(Unwrap(a.image), image_format, stage.options) IN
    IF ~encoded.ok
    THEN Ran(FALSE, labelled, f,
             Error(IF encoded.err \in ParameterMessages THEN "ParameterError" ELSE "IoError",
                   "encode", encoded.err))
    ELSE
    LET buffer == encoded.bytes
        resolved == resolve_output_path(ctx.output, labelled, ext)
        redecoded == Redecode(labelled.metadata, buffer, image_format)
        decoded == redecoded.image
        md1 == redecoded.metadata
        md2 == record_encoder_metadata(
                   Put(Put(Put(Put(md1, "output_path", JString(resolved)),
                               "output.extension", JString(ext)),
                           "output.format", JString(label)),
                       "output.size_bytes", JNumber(1)),
                   stage.options)
    IN  Ran(TRUE,
            [labelled EXCEPT !.image = decoded, !.data = buffer, !.metadata = md2],
            f \cup {resolved}, Error(NoLabel, NoLabel, NoLabel))

\* AnnotateStage::run
AnnotateRun(stage, a, f) ==
    Ran(TRUE, [a EXCEPT !.metadata = Put(@, stage.key, stage.value)], f,
        Error(NoLabel, NoLabel, NoLabel))

\* The run of a caller's stage: it succeeds and leaves the artifact alone.
CustomRun(stage, a, f) == Ran(TRUE, a, f, Error(NoLabel, NoLabel, NoLabel))

\* Stage::run, by stage variant
StageRun(stage, a, f) ==
    CASE stage.kind = "decode" -> DecodeRun(stage, a, f)
      [] stage.kind = "resize" -> ResizeRun(stage, a, f)
      [] stage.kind = "encode" -> EncodeRun(stage, a, f)
      [] stage.kind = "annotate" -> AnnotateRun(stage, a, f)
      [] OTHER -> CustomRun(stage, a, f)

-----------------------------------------------------------------------------
(* stages/mod.rs, pipeline.rs: the constructors of the stages and the      *)
(* registry that maps a stage name to one of them.                          *)

\* Value::to_string of a value that is not a string
to_string(v) ==
    IF v.type = "number" THEN ToString(v.n)
    ELSE IF v.type = "bool" THEN (IF v.b THEN "true" ELSE "false")
    ELSE v.s

\* take_string: the string, or the text of any other value
take_string(params, k) ==
    IF k \notin DOMAIN params THEN None
    ELSE IF params[k].type = "string" THEN Some(params[k].s)
    ELSE Some(to_string(params[k]))

\* str::parse::<u32> on the strings of the model
parse_u32(str) ==
    CASE str = "2" -> Some(2)
      [] str = "4" -> Some(4)
      [] OTHER -> None

\* take_u32
take_u32(params, k) ==
    IF k \notin DOMAIN params THEN None
    ELSE IF params[k].type = "number" THEN Some(params[k].n)
    ELSE IF params[k].type = "string" THEN parse_u32(params[k].s)
    ELSE None

\* Result<Box<dyn Stage>>
Constructed(stage) == [ok |-> TRUE, stage |-> Some(stage), err |-> NoLabel]

NotConstructed(err) == [ok |-> FALSE, stage |-> None, err |-> err]

\* Option<String> as the label a stage record keeps
LabelOf(opt) == IF opt = None THEN NoLabel ELSE Unwrap(opt)

\* DecodeStage::from_params
DecodeStage_from_params(params) ==
    Constructed([DecodeStage EXCEPT !.format = LabelOf(take_string(params, "format"))])

\* AnnotateStage::from_params
AnnotateStage_from_params(params) ==
    IF take_string(params, "key") = None
    THEN NotConstructed("annotate stage requires 'key' parameter")
    ELSE Constructed(AnnotateStage(Unwrap(take_string(params, "key")),
                                   Get(params, "value", JString("true"))))

\* ResizeMode::from_str, as_str
ResizeMode_from_str(label) ==
    CASE label = "cover" -> Some("cover")
      [] label \in {"exact", "stretch"} -> Some("exact")
      [] label \in {"inside", "fit"} -> Some("inside")
      [] OTHER -> None

\* ResizeStage::from_params
ResizeStage_from_params(params) ==
    IF take_u32(params, "width") = None
    THEN NotConstructed("resize stage requires 'width' parameter")
    ELSE IF take_u32(params, "height") = None
    THEN NotConstructed("resize stage requires 'height' parameter")
    ELSE LET fit == take_string(params, "fit")
             mode == IF fit = None THEN None ELSE ResizeMode_from_str(Unwrap(fit))
         IN  Constructed(ResizeStage(Unwrap(take_u32(params, "width")),
                                     Unwrap(take_u32(params, "height")),
                                     IF mode = None THEN "inside" ELSE Unwrap(mode)))

\* EncodeStage::from_params: the format and the extension are taken out of
\* the bag, and what is left is kept as it is
EncodeStage_from_params(params) ==
    Constructed(EncodeStageWith(LabelOf(take_string(params, "format")),
                                Remove(Remove(params, "format"), "extension")))

\* StageRegistry::new
StageRegistry_new == EmptyMap

\* StageRegistry::register: the registry maps the name to the constructor
register(registry, stage_name, constructor) == Put(registry, stage_name, constructor)

\* stages::register_defaults
register_defaults(registry) ==
    register(register(register(register(registry,
        "decode", "DecodeStage"), "annotate", "AnnotateStage"),
        "resize", "ResizeStage"), "encode", "EncodeStage")

\* the call of a registered constructor
Construct(constructor, params) ==
    CASE constructor = "DecodeStage" -> DecodeStage_from_params(params)
      [] constructor = "AnnotateStage" -> AnnotateStage_from_params(params)
      [] constructor = "ResizeStage" -> ResizeStage_from_params(params)
      [] constructor = "EncodeStage" -> EncodeStage_from_params(params)
      [] OTHER -> Constructed(CustomStage(constructor, {"Cpu"}))

\* StageRegistry::create
create(registry, stage_name, params) ==
    IF stage_name \notin DOMAIN registry
    THEN NotConstructed("Unknown stage")
    ELSE Construct(registry[stage_name], params)

\* the stage names of the model in the order of str::cmp
NameOrder ==
    << "annotate", "decode", "encode", "resize", "video_decode", "video_encode",
       "watermark" >>

\* StageRegistry::known_stages: the keys, sorted
known_stages(registry) == SelectSeq(NameOrder, LAMBDA n : n \in DOMAIN registry)

\* pipeline.rs StageSpec, with unwrap_or_default applied to its params
StageSpec(stage, params) == [stage |-> stage, params |-> params]

\* build_pipeline: the stages of the specs, or the first error of create
build_pipeline(registry, stage_specs) ==
    LET made == [i \in 1..Len(stage_specs) |->
                    create(registry, stage_specs[i].stage, stage_specs[i].params)]
    IN  IF \A i \in 1..Len(made) : made[i].ok
        THEN [ok |-> TRUE, stages |-> [i \in 1..Len(made) |-> Unwrap(made[i].stage)],
              err |-> NoLabel]
        ELSE [ok |-> FALSE, stages |-> << >>,
              err |-> made[CHOOSE i \in 1..Len(made) :
                              /\ ~made[i].ok
                              /\ \A j \in 1..(i - 1) : made[j].ok].err]

-----------------------------------------------------------------------------
(* observability.rs: MetricsSnapshot, MetricsCollector, StageTimer.  Time  *)
(* is not modelled: every elapsed duration is one unit, so a stage's       *)
(* total_duration_ms counts the samples added to it.                       *)

Elapsed == 1

\* MetricsSnapshot::default
DefaultSnapshot ==
    [ stages |-> EmptyMap, total_duration_ms |-> 0,
      quality_passes |-> 0, quality_failures |-> 0 ]

\* StageMetrics::default
DefaultStageMetrics == [calls |-> 0, total_duration_ms |-> 0, max_duration_ms |-> 0]

\* MetricsCollector::start_stage
start_stage(stage_name) == [stage |-> stage_name, recorded |-> FALSE]

\* record without the `recorded` flag
record_unguarded(t, m) ==
    LET old == Get(m.stages, t.stage, DefaultStageMetrics)
        new == [ calls |-> old.calls + 1,
                 total_duration_ms |-> old.total_duration_ms + Elapsed,
                 max_duration_ms |-> IF Elapsed > old.max_duration_ms
                                     THEN Elapsed ELSE old.max_duration_ms ]
    IN  [ timer |-> [t EXCEPT !.recorded = TRUE],
          metrics |-> [m EXCEPT !.stages = Put(@, t.stage, new)] ]

\* StageTimer::record: the timer and the snapshot it leaves
record(t, m) ==
    IF t.recorded THEN [timer |-> t, metrics |-> m]
    ELSE LET old == Get(m.stages, t.stage, DefaultStageMetrics)
             new == [ calls |-> old.calls + 1,
                      total_duration_ms |-> old.total_duration_ms + Elapsed,
                      max_duration_ms |-> IF Elapsed > old.max_duration_ms
                                          THEN Elapsed ELSE old.max_duration_ms ]
         IN  [ timer |-> [t EXCEPT !.recorded = TRUE],
               metrics |-> [m EXCEPT !.stages = Put(@, t.stage, new)] ]

\* a timer whose release records nothing
drop_forgets(t, m) == m

\* Drop for StageTimer: the snapshot left when the timer goes out of scope
drop(t, m) == record(t, m).metrics

\* MetricsCollector::record_total_duration
record_total_duration(m, d) == [m EXCEPT !.total_duration_ms = d]


\* MetricsCollector::record_quality_failure counting the failure twice
record_quality_failure_twice(m) == [m EXCEPT !.quality_failures = @ + 2]

\* MetricsCollector::record_quality_failure
record_quality_failure(m) == [m EXCEPT !.quality_failures = @ + 1]

\* a pass counted as a failure
record_quality_pass_as_failure(m) == [m EXCEPT !.quality_failures = @ + 1]

\* MetricsCollector::record_quality_pass
record_quality_pass(m) == [m EXCEPT !.quality_passes = @ + 1]

\* a reset that keeps the samples
reset_keeps(m) == m

\* MetricsCollector::reset
reset(m) == DefaultSnapshot

\* MetricsCollector::snapshot: a clone of the state under the lock
snapshot(m) == m

-----------------------------------------------------------------------------
(* quality.rs, in fixed point: MSE in millionths, PSNR in hundredths of a  *)
(* dB, SSIM in units of 10^-7.  For two solid pictures of grey levels r    *)
(* and c the variances and the covariance are zero and the means are r/255 *)
(* and c/255, so that                                                      *)
(*   mse = (r-c)^2   and   1 - ssim = (r-c)^2 / (r^2 + c^2 + C1*255^2).    *)

\* f64::INFINITY
Infinity == 1000000000

\* c1 = (0.01 * 255)^2 and c2 = (0.03 * 255)^2, times 255^2
SsimC1 == 422825

SsimC2 == 3805425

QualityMetrics(mse, psnr, ssim) ==
    [ok |-> TRUE, err |-> Error(NoLabel, NoLabel, NoLabel),
     mse |-> mse, psnr |-> psnr, ssim |-> ssim]

MetricsError(detail) ==
    [ok |-> FALSE, err |-> Error("MetricsError", "quality", detail),
     mse |-> 0, psnr |-> 0, ssim |-> 0]

\* mean_squared_error
mean_squared_error(ref, cand) == (ref.lum - cand.lum) * (ref.lum - cand.lum) * 1000000

\* peak_signal_to_noise_ratio: 20 log10(255) - 10 log10(mse), tabulated
peak_signal_to_noise_ratio(mse) ==
    CASE mse = 0 -> Infinity
      [] mse = 1000000 -> 4813
      [] mse = 4000000 -> 4211
      [] OTHER -> 3000

\* The two factors of structural_similarity's denominator
SsimDenominators(ref, cand) ==
    << ref.lum * ref.lum + cand.lum * cand.lum + SsimC1, 0 + 0 + SsimC2 >>

\* structural_similarity: None is the error of a zero denominator
structural_similarity(ref, cand) ==
    LET den == SsimDenominators(ref, cand)
        d2 == (ref.lum - cand.lum) * (ref.lum - cand.lum)
    IN  IF den[1] = 0 \/ den[2] = 0 THEN None
        ELSE Some(10000000 - ((10000000 * d2 + den[1] - 1) \div den[1]))

\* compute_metrics
compute_metrics(ref, cand) ==
    IF << ref.width, ref.height >> # << cand.width, cand.height >>
    THEN MetricsError("Cannot compute metrics: dimension mismatch")
    ELSE LET mse == mean_squared_error(ref, cand)
             psnr == peak_signal_to_noise_ratio(mse)
             ssim == structural_similarity(ref, cand)
         IN  IF ssim = None THEN MetricsError("SSIM denominator is zero")
             ELSE QualityMetrics(mse, psnr, Unwrap(ssim))

-----------------------------------------------------------------------------
(* recipe.rs: QualityGateSpec; the gates of the repository's tests and two *)
(* more.                                                                   *)

QualityGateSpec(label, min_ssim, min_psnr, max_mse) ==
    [label |-> label, min_ssim |-> min_ssim, min_psnr |-> min_psnr, max_mse |-> max_mse]

GateChoices ==
    { QualityGateSpec("ssim-strict", Some(9999999), Some(5000), None),
      QualityGateSpec("baseline", Some(9990000), Some(6000), Some(1)),
      QualityGateSpec(NoLabel, None, None, Some(0)),
      QualityGateSpec("lenient", Some(9000000), Some(3000), Some(4000000)) }

-----------------------------------------------------------------------------
(* pipeline.rs: PipelineExecutor *)

\* the body of the loop with the MSE comparison the other way round
GateFailure_MseBelow(gate, qm) ==
    IF gate.min_ssim # None /\ qm.ssim < Unwrap(gate.min_ssim)
    THEN Some(Error("QualityGateFailure",
                    IF gate.label # NoLabel THEN gate.label ELSE "ssim", "SSIM"))
    ELSE IF gate.min_psnr # None /\ qm.psnr < Unwrap(gate.min_psnr)
    THEN Some(Error("QualityGateFailure",
                    IF gate.label # NoLabel THEN gate.label ELSE "psnr", "PSNR"))
    ELSE IF gate.max_mse # None /\ qm.mse < Unwrap(gate.max_mse)
    THEN Some(Error("QualityGateFailure",
                    IF gate.label # NoLabel THEN gate.label ELSE "mse", "MSE"))
    ELSE None

\* The body of the loop over the gates: the failure of one gate, None when
\* it passes.
GateFailure(gate, qm) ==
    IF gate.min_ssim # None /\ qm.ssim < Unwrap(gate.min_ssim)
    THEN Some(Error("QualityGateFailure",
                    IF gate.label # NoLabel THEN gate.label ELSE "ssim", "SSIM"))
    ELSE IF gate.min_psnr # None /\ qm.psnr < Unwrap(gate.min_psnr)
    THEN Some(Error("QualityGateFailure",
                    IF gate.label # NoLabel THEN gate.label ELSE "psnr", "PSNR"))
    ELSE IF gate.max_mse # None /\ qm.mse > Unwrap(gate.max_mse)
    THEN Some(Error("QualityGateFailure",
                    IF gate.label # NoLabel THEN gate.label ELSE "mse", "MSE"))
    ELSE None

\* The loop over the gates without its breaks: the last failure is kept.
RECURSIVE GateLoop_NoBreak(_, _, _)
GateLoop_NoBreak(gates, i, qm) ==
    IF i > Len(gates) THEN None
    ELSE LET later == GateLoop_NoBreak(gates, i + 1, qm) IN
         IF later # None THEN later ELSE GateFailure(gates[i], qm)

\* The loop over the gates, from gate i on: it breaks at the first failure.
RECURSIVE GateLoop(_, _, _)
GateLoop(gates, i, qm) ==
    IF i > Len(gates) THEN None
    ELSE IF GateFailure(gates[i], qm) # None THEN GateFailure(gates[i], qm)
    ELSE GateLoop(gates, i + 1, qm)

\* What evaluate_quality_gates leaves: Ok(Some(metrics)), Ok(None) or
\* Err(err), the artifact and the collector's snapshot.
Evaluated(ok, err, qm, a, m) ==
    [ok |-> ok, err |-> err, quality |-> qm, artifact |-> a, metrics |-> m]

\* evaluate_quality_gates without its two skips: a missing candidate picture
\* is an error
evaluate_quality_gates_no_skip(gates, a, m) ==
    IF gates = << >>
    THEN Evaluated(TRUE, Error(NoLabel, NoLabel, NoLabel), None, a, m)
    ELSE IF a.original_image = None
    THEN Evaluated(FALSE,
                   Error("InvariantError", "quality",
                         "Quality gates require an original decoded image"),
                   None, a, m)
    ELSE IF a.image = None
    THEN Evaluated(FALSE, Error("InvariantError", "quality", "candidate unavailable"),
                   None, a, m)
    ELSE LET qm == compute_metrics(Unwrap(a.original_image), Unwrap(a.image)) IN
         IF ~qm.ok THEN Evaluated(FALSE, qm.err, None, a, m)
         ELSE LET failure == GateLoop(gates, 1, qm) IN
              IF failure # None
              THEN Evaluated(FALSE, Unwrap(failure), None, a, record_quality_failure(m))
              ELSE Evaluated(TRUE, Error(NoLabel, NoLabel, NoLabel), Some(qm), a,
                             record_quality_pass(m))

\* PipelineExecutor::evaluate_quality_gates
evaluate_quality_gates(gates, a, m) ==
    IF gates = << >>
    THEN Evaluated(TRUE, Error(NoLabel, NoLabel, NoLabel), None, a, m)
    ELSE IF a.original_image = None
    THEN Evaluated(FALSE,
                   Error("InvariantError", "quality",
                         "Quality gates require an original decoded image"),
                   None, a, m)
    ELSE IF "output.decode_supported" \in DOMAIN a.metadata
            /\ as_bool(a.metadata["output.decode_supported"]) = Some(FALSE)
    THEN Evaluated(TRUE, Error(NoLabel, NoLabel, NoLabel), None,
                   [a EXCEPT !.metadata = Put(@, "quality.status", JString("skipped"))], m)
    ELSE IF a.image = None
    THEN Evaluated(TRUE, Error(NoLabel, NoLabel, NoLabel), None,
                   [a EXCEPT !.metadata = Put(@, "quality.status", JString("skipped"))], m)
    ELSE LET qm == compute_metrics(Unwrap(a.original_image), Unwrap(a.image)) IN
         IF ~qm.ok THEN Evaluated(FALSE, qm.err, None, a, m)
         ELSE LET failure == GateLoop(gates, 1, qm) IN
              IF failure # None
              THEN Evaluated(FALSE, Unwrap(failure), None, a, record_quality_failure(m))
              ELSE Evaluated(TRUE, Error(NoLabel, NoLabel, NoLabel), Some(qm), a,
                             record_quality_pass(m))

\* value_from_metric
value_from_metric(value) == IF value < Infinity THEN JNumber(value) ELSE JString("inf")

\* `for stage in &self.stages`: the stage of the i-th iteration
StageAt_Reversed(ss, i) == ss[Len(ss) + 1 - i]

StageAt(ss, i) == ss[i]

\* negotiate without the fallback to the other device
negotiate_strict(stage, requested, gpu) ==
    IF supports_device(stage, requested) THEN Some(requested) ELSE None

\* negotiate without the check of what the stage supports
negotiate_requested(stage, requested, gpu) == Some(requested)

\* The device negotiation of PipelineExecutor::process: the device the stage
\* is dispatched on, None when the executor bails.
negotiate(stage, requested, gpu) ==
    IF supports_device(stage, requested) THEN Some(requested)
    ELSE IF requested = "Gpu" /\ supports_device(stage, "Cpu") THEN Some("Cpu")
    ELSE IF requested = "Cpu" /\ gpu /\ supports_device(stage, "Gpu") THEN Some("Gpu")
    ELSE None

\* a result whose output is the default path whatever the metadata holds
PipelineResult_DefaultOutput(input, a) ==
    [ input |-> input, output |-> << OutputDirectory, a.stem >>, metadata |-> a.metadata ]

\* PipelineResult
PipelineResult(input, a) ==
    [ input |-> input,
      output |-> IF "output_path" \in DOMAIN a.metadata /\ as_str(a.metadata["output_path"]) # None
                 THEN Unwrap(as_str(a.metadata["output_path"]))
                 ELSE << OutputDirectory, a.stem >>,
      metadata |-> a.metadata ]

-----------------------------------------------------------------------------
(* The executors the model builds and the batches it runs. *)

\* The stages of the registry, as the repository's tests configure them
ImageStageChoices ==
    { DecodeStage, ResizeStage(2, 2, "exact"), EncodeStage("png"), EncodeStage("jpeg") }

\* decode and stages with each of the other three sets of supported devices
DeviceStageChoices ==
    { DecodeStage, CustomStage("gpu_stage", {"Gpu"}),
      CustomStage("hybrid_stage", {"Cpu", "Gpu"}), CustomStage("inert_stage", {}) }

\* the stages of a recipe with quality gates: decode, resize, a lossy encode
GatedStageChoices ==
    { DecodeStage, ResizeStage(2, 2, "exact"), EncodeStage("jpeg") }

\* the stages of a recipe that decodes, resizes and encodes with a lossy
\* codec, with and without a decoder for the codec in the build
CodecStageChoices ==
    { DecodeStage, ResizeStage(2, 2, "exact"), EncodeStage("jpeg"), EncodeStage("avif") }

StageChoices == ImageStageChoices \cup DeviceStageChoices \cup CodecStageChoices

Executor(ss, p, gpu, gates) ==
    [stages |-> ss, policy |-> p, gpu_available |-> gpu, quality_gates |-> gates]

\* The executors of the model: pipelines of stages of every device support
\* under every policy and GPU flag, every image pipeline under the default
\* policy (no GPU detected), both without quality gates, and the pipelines
\* of gated recipes with every list of gates.
Executors ==
    { Executor(ss, p, gpu, << >>) :
        ss \in SeqsUpTo(DeviceStageChoices, MaxStages),
        p \in DevicePolicy, gpu \in BOOLEAN }
    \cup
    { Executor(ss, "auto", FALSE, << >>) : ss \in SeqsUpTo(ImageStageChoices, MaxStages) }
    \cup
    { Executor(ss, "auto", FALSE, gates) :
        ss \in SeqsUpTo(GatedStageChoices, MaxStages),
        gates \in SeqsUpTo(GateChoices, MaxGates) }

\* Longer pipelines of the codec stages under the default policy, without
\* gates and with the strictest gate of the tests.
CodecExecutors ==
    { Executor(ss, "auto", FALSE, gates) :
        ss \in SeqsUpTo(CodecStageChoices, MaxChain),
        gates \in { << >>,
                    << QualityGateSpec("ssim-strict", Some(9999999), Some(5000), None) >> } }

NoError == Error(NoLabel, NoLabel, NoLabel)

\* Result<Vec<PipelineResult>>, and the two values of `returned` before a
\* call has finished
Returned(status, rs, err) == [status |-> status, results |-> rs, err |-> err]

\* history: one stage attempt
Attempt(input, index, stage, device, ran, ok, seen, left) ==
    [ input |-> input, index |-> index, stage |-> stage, device |-> device,
      ran |-> ran, ok |-> ok, seen |-> seen, left |-> left ]

TypeOK ==
    /\ Len(stages) <= MaxStages \/ Len(stages) <= MaxChain
    /\ \A i \in 1..Len(stages) :
        stages[i].kind \in {"decode", "annotate", "resize", "encode", "custom"}
    /\ policy \in DevicePolicy
    /\ gpu_available \in BOOLEAN
    /\ Len(quality_gates) <= MaxGates
    /\ \A i \in 1..Len(quality_gates) : quality_gates[i] \in GateChoices
    /\ pc \in {"idle", "load", "stage", "dispatch", "gates", "finish"}
    /\ total \in 0..MaxInputs
    /\ Len(inputs) <= total
    /\ \A i \in 1..Len(inputs) : inputs[i] \in InputFiles
    /\ cur \in 0..(MaxInputs + 1)
    /\ si \in 0..(Len(stages) + 1)
    /\ Cardinality(artifact) <= 1
    /\ Cardinality(timer) <= 1
    /\ returned.status \in {"none", "pending", "ok", "err"}

\* build_pipeline and PipelineExecutor::new, TaskScheduler::new: one of the
\* executors xs has been built, and execute has not been called yet.
Built(xs) ==
    /\ \E x \in xs :
        /\ stages = x.stages
        /\ policy = x.policy
        /\ gpu_available = x.gpu_available
        /\ quality_gates = x.quality_gates
    /\ metrics = DefaultSnapshot
    /\ pc = "idle"
    /\ total = 0
    /\ inputs = << >>
    /\ cur = 0
    /\ si = 0
    /\ artifact = NoArtifact
    /\ timer = None
    /\ results = << >>
    /\ returned = Returned("none", << >>, NoError)
    /\ files = {}
    /\ log = << >>

\* No function is being called outside the run.
NoCall == [op |-> "none"]

Init == Built(Executors) /\ call = NoCall

InitCodec == Built(CodecExecutors) /\ call = NoCall

config == << stages, policy, gpu_available, quality_gates >>

\* an executor that skips a failed input and goes on with the next one
Fail_Continue(err) ==
    /\ returned' = returned
    /\ pc' = IF cur >= total THEN "finish" ELSE "load"
    /\ cur' = cur + 1
    /\ si' = 0
    /\ artifact' = NoArtifact
    /\ timer' = None
    /\ results' = results

\* execute returns Err(err): its locals are dropped.
Fail(err) ==
    /\ returned' = Returned("err", << >>, err)
    /\ pc' = "idle"
    /\ cur' = 0
    /\ si' = 0
    /\ artifact' = NoArtifact
    /\ timer' = None
    /\ results' = << >>

\* PipelineExecutor::execute, entry: the collector is reset.  The slice has
\* any length up to MaxInputs; its elements are drawn when the loop reaches
\* them, and no step reads them sooner.
ExecuteBegin ==
    /\ pc = "idle"
    /\ \E n \in 0..MaxInputs :
        /\ total' = n
        /\ pc' = IF n = 0 THEN "finish" ELSE "load"
    /\ inputs' = << >>
    /\ metrics' = reset(metrics)
    /\ results' = << >>
    /\ cur' = 1
    /\ si' = 0
    /\ returned' = Returned("pending", << >>, NoError)
    /\ log' = << >>
    /\ UNCHANGED << call, config, artifact, timer, files >>

\* execute, head of the loop over the inputs: Artifact::load
LoadArtifact ==
    /\ pc = "load"
    /\ \E input \in InputFiles :
        /\ inputs' = Append(inputs, input)
        /\ IF Readable(input)
           THEN /\ artifact' = Some(ArtifactLoad(input))
                /\ si' = 1
                /\ pc' = IF stages = << >> THEN "gates" ELSE "stage"
                /\ UNCHANGED << cur, timer, results, returned >>
           ELSE Fail(Error("IOError", NoLabel, "Failed to read input file"))
    /\ UNCHANGED << call, config, metrics, total, files, log >>

\* process, head of the loop over the stages: the stage timer is started.
StartStage ==
    /\ pc = "stage"
    /\ timer' = Some(start_stage(name(StageAt(stages, si))))
    /\ pc' = "dispatch"
    /\ UNCHANGED << call, config, metrics, total, inputs, cur, si, artifact, results,
                    returned, files, log >>

\* process, rest of the loop body: the device is negotiated, the stage run,
\* and the timer dropped at the end of the iteration or on the early return.
DispatchStage ==
    /\ pc = "dispatch"
    /\ LET stage == StageAt(stages, si)
           requested == select_device(policy, gpu_available)
           device == negotiate(stage, requested, gpu_available)
           a == Unwrap(artifact)
       IN  IF device = None
           THEN /\ Fail(Error("DeviceError", name(stage), requested))
                /\ log' = Append(log, Attempt(cur, si, stage, NoLabel, FALSE, FALSE, a, a))
                /\ UNCHANGED files
           ELSE LET r == StageRun(stage, a, files) IN
                /\ log' = Append(log, Attempt(cur, si, stage, Unwrap(device), TRUE, r.ok, a,
                                               r.artifact))
                /\ files' = r.files
                /\ IF r.ok
                   THEN /\ artifact' = Some(r.artifact)
                        /\ timer' = None
                        /\ si' = si + 1
                        /\ pc' = IF si = Len(stages) THEN "gates" ELSE "stage"
                        /\ UNCHANGED << cur, results, returned >>
                   ELSE Fail(r.err)
    /\ metrics' = drop(Unwrap(timer), metrics)
    /\ UNCHANGED << call, config, total, inputs >>

\* execute, rest of the loop body: the quality gates, then the result
EvaluateQualityGates ==
    /\ pc = "gates"
    /\ LET e == evaluate_quality_gates(quality_gates, Unwrap(artifact), metrics) IN
       /\ metrics' = e.metrics
       /\ IF ~e.ok THEN Fail(e.err)
          ELSE LET md == IF e.quality = None THEN e.artifact.metadata
                         ELSE LET q == Unwrap(e.quality) IN
                              Put(Put(Put(e.artifact.metadata,
                                          "quality.mse", value_from_metric(q.mse)),
                                      "quality.psnr", value_from_metric(q.psnr)),
                                  "quality.ssim", value_from_metric(q.ssim))
                   a == [e.artifact EXCEPT !.metadata = md]
               IN  /\ results' = Append(results, PipelineResult(inputs[cur], a))
                   /\ artifact' = NoArtifact
                   /\ cur' = cur + 1
                   /\ si' = 0
                   /\ pc' = IF cur = total THEN "finish" ELSE "load"
                   /\ UNCHANGED << timer, returned >>
    /\ UNCHANGED << call, config, total, inputs, files, log >>

\* execute, after the loop: the total duration is recorded, Ok(results)
ExecuteFinish ==
    /\ pc = "finish"
    /\ metrics' = record_total_duration(metrics, Elapsed)
    /\ returned' = Returned("ok", results, NoError)
    /\ results' = << >>
    /\ pc' = "idle"
    /\ cur' = 0
    /\ si' = 0
    /\ UNCHANGED << call, config, total, inputs, artifact, timer, files, log >>

Next ==
    \/ ExecuteBegin
    \/ LoadArtifact
    \/ StartStage
    \/ DispatchStage
    \/ EvaluateQualityGates
    \/ ExecuteFinish

Spec == Init /\ [][Next]_vars

\* The same executor steps on the longer codec pipelines
SpecCodec == InitCodec /\ [][Next]_vars

-----------------------------------------------------------------------------
(* Properties.  They are stated over the history of stage attempts, so     *)
(* that they read what the executor did and not how it decided.            *)

Last(seq) == seq[Len(seq)]

OtherDevice(device) == IF device = "Cpu" THEN "Gpu" ELSE "Cpu"

Requested == select_device(policy, gpu_available)

\* The running call was ended by a device error for attempt e.
DeviceErrorFor(e) ==
    /\ returned.status = "err"
    /\ returned.err = Error("DeviceError", name(e.stage), Requested)

\* C1, as claimed: every stage attempt is dispatched on the selected device
\* when the stage supports it, otherwise on the other device whenever the
\* stage supports that one, and a device error needs a stage that supports
\* neither device.
C1_AsClaimed ==
    \A k \in 1..Len(log) :
        LET e == log[k] IN
        /\ supports_device(e.stage, Requested) => e.ran /\ e.device = Requested
        /\ ~supports_device(e.stage, Requested)
             /\ supports_device(e.stage, OtherDevice(Requested))
             => e.ran /\ e.device = OtherDevice(Requested)
        /\ ~e.ran => \A d \in StageDevice : ~supports_device(e.stage, d)

\* C1, amended: the other device is used when the stage supports it and, if
\* it is the GPU, the GPU is available; a device error needs a stage that
\* supports neither device, or only the GPU while the GPU is unavailable.
C1_DeviceNegotiation ==
    \A k \in 1..Len(log) :
        LET e == log[k] IN
        /\ supports_device(e.stage, Requested) => e.ran /\ e.device = Requested
        /\ ~supports_device(e.stage, Requested)
             /\ supports_device(e.stage, OtherDevice(Requested))
             /\ (OtherDevice(Requested) = "Gpu" => gpu_available)
             => e.ran /\ e.device = OtherDevice(Requested)
        /\ ~e.ran =>
             /\ DeviceErrorFor(e)
             /\ \/ \A d \in StageDevice : ~supports_device(e.stage, d)
                \/ /\ ~supports_device(e.stage, "Cpu")
                   /\ supports_device(e.stage, "Gpu")
                   /\ ~gpu_available

\* Under policy auto a stage ran on the device that was not selected, and
\* a later stage of the pipeline was rejected.
C1_Witness ==
    /\ policy = "auto"
    /\ \E k \in 1..Len(log) : log[k].ran /\ log[k].device # Requested
    /\ \E k \in 1..Len(log) : ~log[k].ran /\ DeviceErrorFor(log[k])

GpuOnly(stage) == supports_device(stage, "Gpu") /\ ~supports_device(stage, "Cpu")

CpuOnly(stage) == supports_device(stage, "Cpu") /\ ~supports_device(stage, "Gpu")

\* C2: under policy cpu_only a stage that supports only the GPU is never
\* run, and the call fails with a device error that names the stage.
C2_GpuOnlyUnderCpuOnlyFails ==
    policy = "cpu_only" =>
        \A k \in 1..Len(log) :
            GpuOnly(log[k].stage) => ~log[k].ran /\ DeviceErrorFor(log[k])

\* C3: a stage that supports only the CPU is run, on the CPU, under every
\* policy and GPU flag, and no device error names it.
C3_CpuOnlyRunsOnCpu ==
    /\ \A k \in 1..Len(log) :
           CpuOnly(log[k].stage) => log[k].ran /\ log[k].device = "Cpu"
    /\ returned.status = "err" /\ returned.err.kind = "DeviceError"
           => ~CpuOnly(Last(log).stage)

\* A CPU-only stage ran on the CPU although the GPU was selected, under
\* gpu_preferred.
C3_Witness ==
    /\ policy = "gpu_preferred"
    /\ gpu_available
    /\ Requested = "Gpu"
    /\ \E k \in 1..Len(log) :
           CpuOnly(log[k].stage) /\ log[k].ran /\ log[k].device = "Cpu"

-----------------------------------------------------------------------------
(* The inputs of the running (or last) call, read from the history. *)

\* Every stage of the pipeline has run on input i and succeeded.
Processed(i) ==
    /\ i \in 1..Len(inputs)
    /\ Readable(inputs[i])
    /\ \/ stages = << >>
       \/ \E k \in 1..Len(log) :
              /\ log[k].input = i
              /\ log[k].index = Len(stages)
              /\ log[k].ran
              /\ log[k].ok

\* The artifact of input i as its last stage left it
FinalOf(i) ==
    IF stages = << >> THEN ArtifactLoad(inputs[i])
    ELSE log[CHOOSE k \in 1..Len(log) :
                 log[k].input = i /\ log[k].index = Len(stages)].left

\* The step after the stages of input i, the quality gates, has been taken.
GatesDone(i) == Processed(i) /\ ~(pc = "gates" /\ cur = i)

AttemptFailed(k) == ~log[k].ran \/ ~log[k].ok

\* execute has returned an error and no result list.
Aborted ==
    /\ pc = "idle"
    /\ returned.status = "err"
    /\ returned.results = << >>

\* C4: a failed step (artifact load, device negotiation, stage run, quality
\* gates) is the last step of the call: no stage attempt and no input
\* follows it, and execute has returned the step's error and no result list.
C4_FailFast ==
    /\ \A k \in 1..Len(log) :
           AttemptFailed(k) =>
               /\ k = Len(log)
               /\ log[k].input = Len(inputs)
               /\ Aborted
               /\ IF log[k].ran
                  THEN returned.err = StageRun(log[k].stage, log[k].seen, {}).err
                  ELSE returned.err = Error("DeviceError", name(log[k].stage), Requested)
    /\ \A i \in 1..Len(inputs) :
           /\ ~Readable(inputs[i]) =>
                  /\ i = Len(inputs)
                  /\ Aborted
                  /\ returned.err.kind = "IOError"
                  /\ \A k \in 1..Len(log) : log[k].input < i
           /\ GatesDone(i)
                /\ ~evaluate_quality_gates(quality_gates, FinalOf(i), metrics).ok =>
                  /\ i = Len(inputs)
                  /\ Aborted
                  /\ returned.err =
                         evaluate_quality_gates(quality_gates, FinalOf(i), metrics).err
                  /\ \A k \in 1..Len(log) : log[k].input <= i

\* The first stage of the first input failed in a call with two stages and
\* two inputs.
C4_Witness ==
    /\ Aborted
    /\ total = 2
    /\ Len(stages) = 2
    /\ Len(inputs) = 1
    /\ Len(log) = 1
    /\ log[1].ran
    /\ ~log[1].ok

\* C5: the attempts of a call go through the inputs in order and, for each
\* input, through the stages in the order of the pipeline, once each; the
\* first stage sees the freshly loaded artifact of its input and every
\* other stage the artifact as the stage before it left it; the results
\* are in the order of the inputs.
C5_StageOrdering ==
    /\ \A k \in 1..Len(log) :
           LET e == log[k] IN
           /\ e.index \in 1..Len(stages)
           /\ e.stage = stages[e.index]
           /\ e.input \in 1..Len(inputs)
           /\ e.index = 1 => e.seen = ArtifactLoad(inputs[e.input])
           /\ IF k = 1 THEN e.input = 1 /\ e.index = 1
              ELSE LET p == log[k - 1] IN
                   \/ /\ e.input = p.input
                      /\ e.index = p.index + 1
                      /\ e.seen = p.left
                   \/ /\ e.input = p.input + 1
                      /\ p.index = Len(stages)
                      /\ e.index = 1
    /\ \A i \in 1..Len(results) : results[i].input = inputs[i]
    /\ returned.status = "ok" =>
           /\ Len(returned.results) = total
           /\ \A i \in 1..total :
                  /\ returned.results[i].input = inputs[i]
                  /\ \A key \in DOMAIN FinalOf(i).metadata :
                         /\ key \in DOMAIN returned.results[i].metadata
                         /\ returned.results[i].metadata[key] = FinalOf(i).metadata[key]

\* Two inputs went through two stages, and the second stage saw the
\* metadata the first had written.
C5_Witness ==
    /\ returned.status = "ok"
    /\ Len(log) = 4
    /\ log[1].stage # log[2].stage
    /\ inputs[1] # inputs[2]
    /\ "image.width" \notin DOMAIN log[1].seen.metadata
    /\ "image.width" \in DOMAIN log[2].seen.metadata
    /\ "image.width" \notin DOMAIN log[3].seen.metadata

-----------------------------------------------------------------------------
(* The metrics snapshot against the history of the call. *)

StageNames == { name(stages[i]) : i \in 1..Len(stages) }

\* The number of stages of the pipeline called n
Multiplicity(n) == Cardinality({ i \in 1..Len(stages) : name(stages[i]) = n })

\* The number of stage attempts of the call at stages called n
AttemptsOf(n) == Cardinality({ k \in 1..Len(log) : name(log[k].stage) = n })

Succeeded == pc = "idle" /\ returned.status = "ok"

\* C6, as claimed: after a successful execute the snapshot lists every stage
\* of the pipeline, and every listed stage has calls equal to the number of
\* inputs.
C6_AsClaimed ==
    Succeeded =>
        /\ StageNames \subseteq DOMAIN snapshot(metrics).stages
        /\ \A n \in DOMAIN snapshot(metrics).stages :
               snapshot(metrics).stages[n].calls = total

\* C6, amended: after a successful execute over at least one input the
\* snapshot lists exactly the names of the pipeline's stages, each with
\* calls equal to the number of inputs times the number of stages of that
\* name; after a successful execute over no input it lists no stage.
C6_SnapshotCalls ==
    Succeeded =>
        /\ DOMAIN snapshot(metrics).stages = IF total = 0 THEN {} ELSE StageNames
        /\ \A n \in DOMAIN snapshot(metrics).stages :
               snapshot(metrics).stages[n].calls = total * Multiplicity(n)

\* A call over two inputs succeeded on a pipeline of two stages of one name:
\* the snapshot counts four calls under that name.
C6_Witness ==
    /\ Succeeded
    /\ total = 2
    /\ Len(stages) = 2
    /\ Multiplicity(name(stages[1])) = 2
    /\ snapshot(metrics).stages[name(stages[1])].calls = 4

\* The quality gates of input i compared the final picture with the
\* original one.
Measured(i) ==
    LET a == FinalOf(i) IN
    /\ quality_gates # << >>
    /\ a.original_image # None
    /\ ~( /\ "output.decode_supported" \in DOMAIN a.metadata
          /\ a.metadata["output.decode_supported"] = JBool(FALSE) )
    /\ a.image # None
    /\ Unwrap(a.original_image).width = Unwrap(a.image).width
    /\ Unwrap(a.original_image).height = Unwrap(a.image).height

\* C7: the snapshot counts the stage attempts and the gate verdicts of the
\* running (or last) call and of no earlier one, over all inputs of the
\* call: the collector is reset when a call begins and at no other time.
C7_ResetOncePerCall ==
    /\ DOMAIN snapshot(metrics).stages = { name(log[k].stage) : k \in 1..Len(log) }
    /\ \A n \in DOMAIN snapshot(metrics).stages :
           /\ snapshot(metrics).stages[n].calls = AttemptsOf(n)
           /\ snapshot(metrics).stages[n].total_duration_ms = AttemptsOf(n) * Elapsed
    /\ snapshot(metrics).quality_passes + snapshot(metrics).quality_failures
           = Cardinality({ i \in 1..Len(inputs) : GatesDone(i) /\ Measured(i) })
    /\ pc = "load" /\ cur = 1 => snapshot(metrics) = DefaultSnapshot

\* A call over two inputs has passed its gates twice, after an earlier call
\* that wrote the output of another input.
C7_Witness ==
    /\ Succeeded
    /\ total = 2
    /\ snapshot(metrics).quality_passes = 2
    /\ "encode" \in DOMAIN snapshot(metrics).stages
    /\ snapshot(metrics).stages["encode"].calls = 2
    /\ \E f \in files : \A i \in 1..Len(inputs) : f[2] # file_stem(inputs[i])

\* C8: a live timer has not recorded; recording it adds one call and one
\* duration sample to its stage, and recording or dropping it again adds
\* nothing; the step that ends a stage attempt, with or without an error,
\* releases the timer and leaves exactly that one sample in the snapshot.
C8_TimerRecordsOnce ==
    [][ /\ timer # None =>
            LET t == Unwrap(timer)
                old == Get(metrics.stages, t.stage, DefaultStageMetrics)
                once == record(t, metrics)
                twice == record(once.timer, once.metrics)
            IN  /\ ~t.recorded
                /\ once.metrics.stages[t.stage].calls = old.calls + 1
                /\ once.metrics.stages[t.stage].total_duration_ms
                       = old.total_duration_ms + Elapsed
                /\ twice = once
                /\ drop(once.timer, once.metrics) = once.metrics
                /\ timer' = None
                /\ metrics' = once.metrics
                /\ Len(log') = Len(log) + 1
        /\ timer = None /\ timer' # None => metrics' = metrics /\ log' = log
      ]_vars

\* A stage attempt ended with the stage's error, and the attempt is counted.
C8_Witness ==
    /\ Aborted
    /\ Len(log) = 2
    /\ log[2].ran
    /\ ~log[2].ok
    /\ timer = None
    /\ name(log[1].stage) # name(log[2].stage)
    /\ snapshot(metrics).stages[name(log[2].stage)].calls = 1

-----------------------------------------------------------------------------
(* The quality gates against the thresholds they declare. *)

\* The metrics of input i's final picture against its original one
MetricsOf(i) ==
    compute_metrics(Unwrap(FinalOf(i).original_image), Unwrap(FinalOf(i).image))

\* The thresholds of a gate that the metrics violate
ViolatedThresholds(gate, qm) ==
    { th \in {"SSIM", "PSNR", "MSE"} :
        \/ th = "SSIM" /\ gate.min_ssim # None /\ qm.ssim < Unwrap(gate.min_ssim)
        \/ th = "PSNR" /\ gate.min_psnr # None /\ qm.psnr < Unwrap(gate.min_psnr)
        \/ th = "MSE" /\ gate.max_mse # None /\ qm.mse > Unwrap(gate.max_mse) }

\* The gates, by position, with a threshold the metrics of input i violate
ViolatingGates(i) ==
    { g \in 1..Len(quality_gates) :
        ViolatedThresholds(quality_gates[g], MetricsOf(i)) # {} }

FirstThreshold(ths) ==
    IF "SSIM" \in ths THEN "SSIM" ELSE IF "PSNR" \in ths THEN "PSNR" ELSE "MSE"

LowerCase(th) ==
    CASE th = "SSIM" -> "ssim"
      [] th = "PSNR" -> "psnr"
      [] th = "MSE" -> "mse"

\* The error of gate g for its first violated threshold
GateError(g, qm) ==
    LET gate == quality_gates[g]
        th == FirstThreshold(ViolatedThresholds(gate, qm))
    IN  Error("QualityGateFailure",
              IF gate.label # NoLabel THEN gate.label ELSE LowerCase(th), th)

\* C9: when the metrics of an input violate a threshold of some gate, the
\* call ends with the error of the first such gate in the declared order,
\* for the first violated threshold in the order min_ssim, min_psnr,
\* max_mse, and quality_failures is one.
C9_FirstViolatedGate ==
    \A i \in 1..Len(inputs) :
        GatesDone(i) /\ Measured(i) /\ ViolatingGates(i) # {} =>
            LET first == CHOOSE g \in ViolatingGates(i) :
                             \A h \in ViolatingGates(i) : g <= h
            IN  /\ Aborted
                /\ i = Len(inputs)
                /\ returned.err = GateError(first, MetricsOf(i))
                /\ snapshot(metrics).quality_failures = 1

\* Two gates are violated, the first of them in two thresholds, and the
\* second gate's error would be another one.
C9_Witness ==
    /\ Aborted
    /\ returned.err.kind = "QualityGateFailure"
    /\ Len(inputs) = 2
    /\ GatesDone(2)
    /\ Measured(2)
    /\ ViolatingGates(2) = {1, 2}
    /\ Cardinality(ViolatedThresholds(quality_gates[1], MetricsOf(2))) = 2
    /\ GateError(2, MetricsOf(2)) # returned.err

\* The step taken evaluates the gates of the current input on metrics.
Evaluating == pc = "gates" /\ Measured(cur)

\* C10: a step adds one to quality_failures exactly when it evaluates the
\* gates and a threshold is violated, and then the call ends with a quality
\* gate failure; it adds one to quality_passes exactly when it evaluates the
\* gates and no threshold is violated; a step that ends the call with any
\* other error changes neither counter; only the reset at the beginning of
\* a call changes them otherwise.
C10_QualityCounters ==
    [][ IF pc = "idle"
        THEN metrics'.quality_passes = 0 /\ metrics'.quality_failures = 0
        ELSE /\ metrics'.quality_failures = metrics.quality_failures +
                    (IF Evaluating /\ ViolatingGates(cur) # {} THEN 1 ELSE 0)
             /\ metrics'.quality_passes = metrics.quality_passes +
                    (IF Evaluating /\ ViolatingGates(cur) = {} THEN 1 ELSE 0)
             /\ metrics'.quality_failures # metrics.quality_failures
                    <=> returned'.status = "err"
                          /\ returned'.err.kind = "QualityGateFailure"
             /\ returned'.status = "err" /\ returned'.err.kind # "QualityGateFailure"
                    => /\ metrics'.quality_failures = metrics.quality_failures
                       /\ metrics'.quality_passes = metrics.quality_passes
      ]_vars

\* One input has passed its gates and the next one has failed in a stage:
\* the counters are one and zero.
C10_Witness ==
    /\ Aborted
    /\ returned.err.kind \in {"DecodeError", "MetricsError", "InvariantError"}
    /\ Len(inputs) = 2
    /\ GatesDone(1)
    /\ Measured(1)
    /\ snapshot(metrics).quality_passes = 1
    /\ snapshot(metrics).quality_failures = 0

\* C28: when a call of execute over N inputs has returned, quality_failures
\* is 0 or 1, quality_passes + quality_failures is at most N,
\* quality_failures is 1 only if the call returned an error, and both
\* counters are 0 when the executor has no quality gates.
C28_CounterBounds ==
    (pc = "idle" /\ returned.status \in {"ok", "err"}) =>
        /\ metrics.quality_failures \in {0, 1}
        /\ metrics.quality_passes + metrics.quality_failures <= total
        /\ metrics.quality_failures = 1 => returned.status = "err"
        /\ quality_gates = << >> =>
               metrics.quality_passes = 0 /\ metrics.quality_failures = 0

\* a call over two inputs has returned the quality gate failure of the
\* second input after the first one passed: the counters are one and one
C28_Witness ==
    /\ pc = "idle"
    /\ returned.status = "err"
    /\ returned.err.kind = "QualityGateFailure"
    /\ total = 2
    /\ metrics.quality_passes = 1
    /\ metrics.quality_failures = 1

-----------------------------------------------------------------------------
(* The codec pipelines. *)

\* The encoder's output could not be decoded again.
DecodeUnsupported(a) ==
    /\ "output.decode_supported" \in DOMAIN a.metadata
    /\ a.metadata["output.decode_supported"] = JBool(FALSE)

QualityKeys == {"quality.mse", "quality.psnr", "quality.ssim"}

\* C11: the step that evaluates the gates of an artifact with an original
\* image and output.decode_supported = false, gates being configured,
\* appends a result whose metadata has quality.status = "skipped" and none
\* of quality.mse, quality.psnr, quality.ssim, changes neither quality
\* counter and returns no error.
C11_SkippedWithoutDecoder ==
    [][ /\ pc = "gates"
        /\ quality_gates # << >>
        /\ Unwrap(artifact).original_image # None
        /\ DecodeUnsupported(Unwrap(artifact))
        => /\ Len(results') = Len(results) + 1
           /\ results' = Append(results, Last(results'))
           /\ Last(results').input = inputs[cur]
           /\ "quality.status" \in DOMAIN Last(results').metadata
           /\ Last(results').metadata["quality.status"] = JString("skipped")
           /\ QualityKeys \cap DOMAIN Last(results').metadata = {}
           /\ metrics' = metrics
           /\ returned' = returned
           /\ pc' \in {"load", "finish"}
      ]_vars

\* A call with a gate has succeeded on an input whose AVIF output could not
\* be decoded: its result says the gates were skipped.
C11_Witness ==
    /\ Succeeded
    /\ quality_gates # << >>
    /\ total = 1
    /\ FinalOf(1).original_image # None
    /\ DecodeUnsupported(FinalOf(1))
    /\ returned.results[1].metadata["quality.status"] = JString("skipped")
    /\ snapshot(metrics).quality_passes = 0
    /\ snapshot(metrics).quality_failures = 0

\* C21: an encode whose written bytes cannot be decoded again does not
\* fail: it records output.decode_supported = false and a warning, clears
\* the current image, and still records output_path, output.extension,
\* output.format and output.size_bytes and replaces the data with the
\* encoded bytes; when the bytes decode, output.decode_supported = true and
\* the current image is the picture decoded from them.
C21_RoundTripDowngraded ==
    \A k \in 1..Len(log) :
        LET e == log[k]
            fmt == infer_format(e.stage.format, e.seen)
        IN  /\ e.stage.kind = "encode" /\ e.ran
            /\ e.seen.image # None /\ fmt # None /\ e.stage.options = EmptyMap
            => /\ e.ok
               /\ e.left.data = Bytes(Unwrap(fmt), Encoded(Unwrap(e.seen.image), Unwrap(fmt)))
               /\ { "output_path", "output.extension", "output.format",
                     "output.size_bytes", "output.decode_supported" }
                       \subseteq DOMAIN e.left.metadata
               /\ e.left.metadata["output.format"] = JString(format_extension(Unwrap(fmt)))
               /\ e.left.metadata["output_path"].s \in files
               /\ IF load_from_memory_with_format(e.left.data, Unwrap(fmt)) = None
                  THEN /\ e.left.metadata["output.decode_supported"] = JBool(FALSE)
                       /\ "output.decode_warning" \in DOMAIN e.left.metadata
                       /\ e.left.image = None
                  ELSE /\ e.left.metadata["output.decode_supported"] = JBool(TRUE)
                       /\ "output.decode_warning" \notin DOMAIN e.seen.metadata
                              => "output.decode_warning" \notin DOMAIN e.left.metadata
                       /\ e.left.image = Some(e.left.data.image)

\* A decoded and resized picture was encoded as AVIF: the stage succeeded,
\* wrote its file and left no current image.
C21_Witness ==
    \E k \in 1..Len(log) :
        /\ log[k].stage = EncodeStage("avif")
        /\ log[k].ok
        /\ log[k].seen.image # None
        /\ "resize.width" \in DOMAIN log[k].seen.metadata
        /\ log[k].left.image = None
        /\ log[k].left.metadata["output.decode_supported"] = JBool(FALSE)
        /\ returned.status = "ok"

-----------------------------------------------------------------------------
(* The loop over the gates of evaluate_quality_gates, on its own: one      *)
(* metrics computation, a list of gates, and the same list with relaxed    *)
(* thresholds.                                                             *)

\* An executor that is never run
IdleExecutors == { Executor(<< >>, "auto", FALSE, << >>) }

\* The metrics of a solid picture against itself and against pictures one
\* and two grey levels away
MetricsChoices ==
    { compute_metrics(Image(4, 4, 100), Image(4, 4, lum)) : lum \in {100, 101, 102} }

\* A threshold and what it may be relaxed to: itself, a looser value, none
Relaxations(threshold, looser) ==
    IF threshold = None THEN {None} ELSE {threshold, Some(looser), None}

\* A gate with each of its relaxations
RelaxedGates ==
    { << g, QualityGateSpec(g.label, s, p, m) >> :
        g \in { h \in GateChoices : h.label # "baseline" },
        s \in {None, Some(8000000), Some(9000000), Some(9999999)},
        p \in {None, Some(2000), Some(3000), Some(5000)},
        m \in {None, Some(0), Some(4000000), Some(9000000)} }

GatePairs ==
    { gp \in RelaxedGates :
        /\ gp[2].min_ssim \in Relaxations(gp[1].min_ssim, 8000000)
        /\ gp[2].min_psnr \in Relaxations(gp[1].min_psnr, 2000)
        /\ gp[2].max_mse \in Relaxations(gp[1].max_mse, 9000000) }

InitGates == Built(IdleExecutors) /\ call = NoCall

\* compute_metrics has returned Ok(metrics).
Measure ==
    /\ call.op = "none"
    /\ \E qm \in MetricsChoices :
           call' = [ op |-> "gates", qm |-> qm, gates |-> << >>, relaxed |-> << >>,
                     failure |-> None, relaxed_failure |-> None ]
    /\ UNCHANGED run

\* One more gate is declared, in both lists, and the loop is run on both.
DeclareGate ==
    /\ call.op = "gates"
    /\ Len(call.gates) < MaxGates
    /\ \E gp \in GatePairs :
           LET gates == Append(call.gates, gp[1])
               relaxed == Append(call.relaxed, gp[2])
           IN  call' = [ call EXCEPT !.gates = gates,
                                     !.relaxed = relaxed,
                                     !.failure = GateLoop(gates, 1, call.qm),
                                     !.relaxed_failure = GateLoop(relaxed, 1, call.qm) ]
    /\ UNCHANGED run

NextGates == Measure \/ DeclareGate

SpecGates == InitGates /\ [][NextGates]_vars

\* C12: for one metrics computation, when a list of gates passes, the list
\* with every min_ssim and min_psnr lowered or removed and every max_mse
\* raised or removed passes as well.
C12_GateMonotonicity ==
    call.op = "gates" /\ call.failure = None => call.relaxed_failure = None

\* A list of two gates passes on a picture that differs from the original,
\* and every gate of the list has a threshold that is relaxed.
C12_Witness ==
    /\ call.op = "gates"
    /\ Len(call.gates) = 2
    /\ call.qm.mse > 0
    /\ call.failure = None
    /\ \E i \in 1..2 : call.gates[i].max_mse # None /\ call.relaxed[i].max_mse = None
    /\ \E i \in 1..2 : /\ call.gates[i].min_ssim # None
                       /\ call.relaxed[i].min_ssim # None
                       /\ call.relaxed[i].min_ssim # call.gates[i].min_ssim

-----------------------------------------------------------------------------
(* The artifact along the stages of a pipeline. *)

\* C13: a stage that is run on an artifact whose original image is set
\* leaves the original image as it found it.
C13_OriginalImageKept ==
    \A k \in 1..Len(log) :
        log[k].ran /\ log[k].seen.original_image # None
            => log[k].left.original_image = log[k].seen.original_image

\* C14: the step that runs a resize or an encode stage on an artifact
\* without a current image ends the call with the stage's error, writes no
\* file and leaves the artifact's metadata as it was.
C14_ImageRequired ==
    [][ /\ pc = "dispatch"
        /\ StageAt(stages, si).kind \in {"resize", "encode"}
        /\ Unwrap(artifact).image = None
        => /\ returned'.status = "err"
           /\ returned'.err.kind = "InvariantError"
           /\ returned'.err.stage = name(StageAt(stages, si))
           /\ pc' = "idle"
           /\ files' = files
           /\ Len(log') = Len(log) + 1
           /\ Last(log').ran
           /\ ~Last(log').ok
           /\ Last(log').left.metadata = Unwrap(artifact).metadata
      ]_vars

\* An encode stage has failed on an artifact whose image an earlier encode
\* had cleared after writing its file.
C14_Witness ==
    /\ Aborted
    /\ Len(log) = 3
    /\ log[3].stage.kind = "encode"
    /\ log[3].seen.image = None
    /\ DecodeUnsupported(log[3].seen)
    /\ ~log[3].ok
    /\ Cardinality(files) = 1

-----------------------------------------------------------------------------
(* Recipes whose encode stage carries codec options: the executors that    *)
(* build_pipeline returns for them.                                        *)

\* the option bags of an encode stage: none, and each option the encoders
\* parse with a value they accept and with one they reject
EncodeOptionChoices ==
    { EmptyMap,
      Put(EmptyMap, "compression", JString("best")),
      Put(EmptyMap, "compression", JString("bogus")),
      Put(EmptyMap, "filter", JString("paeth")),
      Put(EmptyMap, "filter", JNumber(9)),
      Put(EmptyMap, "colorspace", JString("srgb")),
      Put(EmptyMap, "colorspace", JString("xyz")),
      Put(EmptyMap, "icc_profile_path", JString("srgb.icc")),
      Put(EmptyMap, "icc_profile_path", JString("missing.icc")),
      Put(EmptyMap, "icc_profile_path", JNumber(7)) }

\* the recipes: decode, then encode in one format with one option bag; two
\* recipes with a resize stage, one of them without its width; and recipes
\* that annotate the artifact with an output_path of their own
ParamRecipes ==
    { << StageSpec("decode", EmptyMap),
         StageSpec("encode", Put(options, "format", JString(format))) >> :
        format \in {"png", "jpeg", "avif"}, options \in EncodeOptionChoices }
    \cup
    { << StageSpec("decode", EmptyMap), StageSpec("resize", params) >> :
        params \in { Put(EmptyMap, "height", JNumber(2)),
                     Put(Put(EmptyMap, "width", JString("2")), "height", JNumber(2)) } }
    \cup
    { << StageSpec("decode", EmptyMap),
         StageSpec("encode", Put(EmptyMap, "format", JString("png"))),
         StageSpec("annotate", Put(Put(EmptyMap, "key", JString("output_path")),
                                   "value", value)) >> :
        value \in { JNumber(7), JString(<< "elsewhere" >>) } }

\* build_pipeline on the default registry, for the recipes it accepts
ParamExecutors ==
    { Executor(build_pipeline(register_defaults(StageRegistry_new), recipe).stages,
               "auto", FALSE, gates) :
        recipe \in { r \in ParamRecipes :
                        build_pipeline(register_defaults(StageRegistry_new), r).ok },
        gates \in { << >>,
                    << QualityGateSpec("lenient", Some(9000000), Some(3000),
                                       Some(4000000)) >> } }

InitParams == Built(ParamExecutors) /\ call = NoCall

SpecParams == InitParams /\ [][Next]_vars

\* C15: parameter errors surface at build time only: once build_pipeline
\* has succeeded, no run of a stage fails because of a parameter value, so
\* that execute never returns a parameter error.
C15_ParameterErrorsAtBuildOnly ==
    returned.status = "err" => returned.err.detail \notin ParameterMessages

\* The result r is the result of input i: its input, its output path (the
\* output_path entry when that is a string, the output directory joined
\* with the stem otherwise) and its metadata (what the last stage left,
\* with nothing but the entries of the gate evaluation added).
ResultOf(r, i) ==
    LET final == FinalOf(i)
        added == (DOMAIN r.metadata) \ (DOMAIN final.metadata)
        measured == /\ quality_gates # << >>
                    /\ final.image # None
                    /\ ~DecodeUnsupported(final)
    IN  /\ r.input = inputs[i]
        /\ r.output = IF /\ "output_path" \in DOMAIN r.metadata
                         /\ r.metadata["output_path"].type = "string"
                      THEN r.metadata["output_path"].s
                      ELSE << OutputDirectory, file_stem(inputs[i]) >>
        /\ \A k \in DOMAIN final.metadata :
               k \in DOMAIN r.metadata /\ r.metadata[k] = final.metadata[k]
        /\ added \subseteq QualityKeys \cup {"quality.status"}
        /\ quality_gates = << >> => added = {}
        /\ measured =>
               /\ added = QualityKeys
               /\ r.metadata["quality.mse"]
                     = value_from_metric(compute_metrics(Unwrap(final.original_image),
                                                         Unwrap(final.image)).mse)

\* C18: the result of a processed input has as output path the string
\* under output_path in its metadata, or else the output directory joined
\* with the stem; its metadata is the artifact's after the gate evaluation;
\* and execute returns one result per input, in the order of the inputs.
C18_ResultPerInput ==
    /\ Len(results) <= Len(inputs)
    /\ \A i \in 1..Len(results) : ResultOf(results[i], i)
    /\ returned.status = "ok" =>
           /\ Len(returned.results) = total
           /\ Len(inputs) = total
           /\ \A i \in 1..total : ResultOf(returned.results[i], i)

\* execute has returned the results of two different inputs: the stages
\* ended with an annotation that put a number under output_path, so that
\* the outputs are the default paths, and the gates added their metrics.
C18_Witness ==
    /\ returned.status = "ok"
    /\ Len(returned.results) = 2
    /\ inputs[1] # inputs[2]
    /\ \A i \in 1..2 :
           /\ "output_path" \in DOMAIN returned.results[i].metadata
           /\ returned.results[i].metadata["output_path"].type = "number"
           /\ returned.results[i].output = << OutputDirectory, file_stem(inputs[i]) >>
           /\ QualityKeys \subseteq DOMAIN returned.results[i].metadata

\* the attempts of the log in which an encode stage wrote the file of input i
Writes(i) ==
    { k \in 1..Len(log) :
          /\ log[k].input = i
          /\ log[k].stage.kind = "encode"
          /\ log[k].ran /\ log[k].ok }

-----------------------------------------------------------------------------
(* The stage registry on its own: a fresh registry, register_defaults, a   *)
(* caller's own registrations, and the calls of create and known_stages.   *)

\* the names a caller asks the registry for
AskedNames == { NameOrder[i] : i \in 1..Len(NameOrder) }

\* the names a caller registers a stage of its own under
CallerNames == {"watermark", "video_decode"}

\* the parameter bags of the calls of create
CreateParams ==
    { EmptyMap,
      Put(EmptyMap, "key", JString("reviewed")),
      Put(Put(EmptyMap, "width", JNumber(2)), "height", JNumber(2)),
      Put(EmptyMap, "format", JString("png")) }

\* the last call on the registry: none, create or known_stages
RegistryCall(op, stage_name, params, result, names) ==
    [op |-> op, name |-> stage_name, params |-> params, result |-> result, names |-> names]

NoRegistryCall == RegistryCall("none", NoLabel, EmptyMap, NotConstructed(NoLabel), << >>)

\* StageRegistry::new has returned.
InitRegistry ==
    /\ Built(IdleExecutors)
    /\ call = [ op |-> "registry", registry |-> StageRegistry_new,
                defaults_only |-> FALSE, last |-> NoRegistryCall ]

\* stages::register_defaults(&mut registry)
RegisterDefaults ==
    /\ call.op = "registry"
    /\ call' = [ call EXCEPT !.registry = register_defaults(call.registry),
                             !.defaults_only = (call.registry = StageRegistry_new)
                                               \/ call.defaults_only,
                             !.last = NoRegistryCall ]
    /\ UNCHANGED run

\* registry.register(name, constructor) with a constructor of the caller
Register ==
    /\ call.op = "registry"
    /\ \E n \in CallerNames :
           call' = [ call EXCEPT !.registry = register(call.registry, n, n),
                                 !.defaults_only = FALSE,
                                 !.last = NoRegistryCall ]
    /\ UNCHANGED run

\* registry.create(name, params)
Create ==
    /\ call.op = "registry"
    /\ \E n \in AskedNames, params \in CreateParams :
           call' = [ call EXCEPT !.last =
                        RegistryCall("create", n, params,
                                     create(call.registry, n, params), << >>) ]
    /\ UNCHANGED run

\* registry.known_stages()
KnownStages ==
    /\ call.op = "registry"
    /\ call' = [ call EXCEPT !.last =
                    RegistryCall("known_stages", NoLabel, EmptyMap,
                                 NotConstructed(NoLabel), known_stages(call.registry)) ]
    /\ UNCHANGED run

NextRegistry == RegisterDefaults \/ Register \/ Create \/ KnownStages

SpecRegistry == InitRegistry /\ [][NextRegistry]_vars

\* the stage variants the specification lists
Variants == {"decode", "annotate", "resize", "encode", "video_decode", "video_encode"}

\* parameters a variant accepts: annotate needs a key, resize a width and a
\* height
ValidParams(variant, params) ==
    CASE variant = "annotate" -> "key" \in DOMAIN params
      [] variant = "resize" -> {"width", "height"} \subseteq DOMAIN params
      [] OTHER -> TRUE

\* C16: after register_defaults on a fresh registry, create succeeds with
\* valid parameters for decode, annotate, resize, encode, video_decode and
\* video_encode, known_stages returns exactly these names in sorted order,
\* and create of any other name fails with the unknown-stage error.
C16_DefaultStages ==
    call.op = "registry" /\ call.defaults_only =>
        /\ call.last.op = "create" /\ call.last.name \in Variants
              /\ ValidParams(call.last.name, call.last.params)
              => call.last.result.ok
        /\ call.last.op = "create" /\ call.last.name \notin Variants
              => ~call.last.result.ok /\ call.last.result.err = "Unknown stage"
        /\ call.last.op = "known_stages"
              => call.last.names = << "annotate", "decode", "encode", "resize",
                                      "video_decode", "video_encode" >>

-----------------------------------------------------------------------------
(* resolve_output_path on its own: a structure, a stem, an extension and   *)
(* the entries of the metadata in the order of their iteration.            *)

StructureChoices ==
    { default_output_structure,
      << "{", "stem", "}", "-", "{", "tag", "}", ".", "{", "ext", "}" >>,
      << "{", "ext", "}", "/", "{", "stem", "}" >>,
      << "{", "stem", "}", "{", "missing", "}", ".", "{", "ext", "}" >>,
      << "{", "tag", "}", "{", "note", "}" >>,
      << "{", "stem", "}", ".", "bin" >> }

\* Artifact.stem: the input file's name without its extension
StemChoices ==
    { << "a" >>, << "{", "ext", "}" >>, << "{", "tag", "}" >>, << "a", "{" >> }

ExtensionChoices == { << "png" >>, << "jpg" >>, << "{", "tag", "}" >> }

\* the metadata: nothing, a string, a number, and two strings of which one
\* holds the placeholder of the other, in both orders of iteration
EntriesChoices ==
    { << >>,
      << << "tag", JString(<< "v1" >>) >> >>,
      << << "tag", JNumber(3) >> >>,
      << << "note", JString(<< "n" >>) >>, << "tag", JString(<< "{", "note", "}" >>) >> >>,
      << << "tag", JString(<< "{", "note", "}" >>) >>, << "note", JString(<< "n" >>) >> >> }

InitTemplate == Built(IdleExecutors) /\ call = NoCall

\* the arguments of a call of resolve_output_path
TakeArguments ==
    /\ call.op \in {"none", "resolved"}
    /\ \E structure \in StructureChoices, stem \in StemChoices,
          ext \in ExtensionChoices, entries \in EntriesChoices :
           call' = [ op |-> "resolve", structure |-> structure, stem |-> stem,
                     ext |-> ext, entries |-> entries, file_name |-> << >> ]
    /\ UNCHANGED run

\* resolve_output_path returns
ResolveOutputPath ==
    /\ call.op = "resolve"
    /\ call' = [ call EXCEPT !.op = "resolved",
                             !.file_name = resolve_file_name(call.structure, call.stem,
                                                             call.ext, call.entries) ]
    /\ UNCHANGED run

NextTemplate == TakeArguments \/ ResolveOutputPath

SpecTemplate == InitTemplate /\ [][NextTemplate]_vars

\* the placeholders that have a definition: stem, ext and the keys of the
\* string-valued entries
Defined(stem, ext, entries) ==
    LET keys == { entries[i][1] : i \in { j \in 1..Len(entries) :
                                             entries[j][2].type = "string" } }
    IN  [ k \in keys \cup {"stem", "ext"} |->
            IF k = "stem" THEN stem
            ELSE IF k = "ext" THEN ext
            ELSE entries[CHOOSE i \in 1..Len(entries) : entries[i][1] = k][2].s ]

\* one pass over the structure from left to right: a placeholder with a
\* definition is replaced by its value, which is not scanned again
RECURSIVE SinglePass(_, _)
SinglePass(structure, defined) ==
    IF structure = << >> THEN << >>
    ELSE IF /\ Len(structure) >= 3
            /\ structure[1] = "{" /\ structure[3] = "}"
            /\ structure[2] \in DOMAIN defined
    THEN defined[structure[2]] \o SinglePass(SubSeq(structure, 4, Len(structure)), defined)
    ELSE << Head(structure) >> \o SinglePass(Tail(structure), defined)

\* C17: the file name is the result of a single left-to-right pass over
\* the structure: {stem}, {ext} and {key} of string-valued metadata are
\* replaced, inserted text is never scanned for placeholders, and
\* placeholders without a definition stay as they are.
C17_SinglePass ==
    call.op = "resolved"
        => call.file_name
              = SinglePass(call.structure, Defined(call.stem, call.ext, call.entries))

-----------------------------------------------------------------------------
(* video/h264.rs: the Annex B splitter and the removal of emulation         *)
(* prevention bytes, on byte strings.                                       *)

MaxBytes == 6

\* the bytes of the model: the bytes of the start codes and of the
\* emulation prevention, and the header of an IDR slice (0x65)
ByteChoices == {0, 1, 3, 101}

ByteStrings == SeqsUpTo(ByteChoices, MaxBytes)

\* data[a..b]
Slice(data, a, b) == SubSeq(data, a + 1, b)

\* NalUnit { nal_type, payload }
NalUnit(nal_type, payload) == [nal_type |-> nal_type, payload |-> payload]

\* split_annex_b, the inner loop: the index it stops at
RECURSIVE ScanPayload(_, _)
ScanPayload(data, i) ==
    IF i + 3 < Len(data) /\ Slice(data, i, i + 3) # << 0, 0, 1 >>
    THEN ScanPayload(data, i + 1)
    ELSE i

\* the index the outer loop of split_annex_b reaches from i by steps of
\* `i += 1`: the first one where the loop ends or finds 00 00 01
SkipTo(data, i) ==
    LET stops == { j \in i..Len(data) :
                       ~(j + 3 < Len(data)) \/ Slice(data, j, j + 3) = << 0, 0, 1 >> }
    IN  CHOOSE j \in stops : \A k \in stops : j <= k

\* split_annex_b, the outer loop from index i on.  The branch for the
\* four-byte start code and the last branch both go on at i + 1.
RECURSIVE SplitLoop(_, _, _)
SplitLoop(data, i, units) ==
    IF ~(i + 3 < Len(data)) THEN units
    ELSE IF Slice(data, i, i + 3) = << 0, 0, 1 >>
    THEN LET start == i + 3
             end == ScanPayload(data, start)
         IN  SplitLoop(data, end,
                       IF end > start
                       THEN Append(units, NalUnit(data[start + 1] % 32,
                                                  Slice(data, start, end)))
                       ELSE units)
    ELSE SplitLoop(data, SkipTo(data, i + 1), units)

\* split_annex_b: Err when no unit was found
split_annex_b(data) ==
    LET units == SplitLoop(data, 0, << >>) IN
    IF units = << >>
    THEN [ok |-> FALSE, units |-> << >>, err |-> "no NAL units found"]
    ELSE [ok |-> TRUE, units |-> units, err |-> NoLabel]

\* the loop of remove_emulation_prevention that stops looking for the
\* three bytes one index early
RECURSIVE RemoveLoop_ShortOfEnd(_, _, _)
RemoveLoop_ShortOfEnd(data, i, out) ==
    IF ~(i < Len(data)) THEN out
    ELSE IF i + 3 < Len(data) /\ data[i + 1] = 0 /\ data[i + 2] = 0 /\ data[i + 3] = 3
    THEN RemoveLoop_ShortOfEnd(data, i + 3, out \o << 0, 0 >>)
    ELSE RemoveLoop_ShortOfEnd(data, i + 1, Append(out, data[i + 1]))

\* remove_emulation_prevention, the loop from index i on
RECURSIVE RemoveLoop(_, _, _)
RemoveLoop(data, i, out) ==
    IF ~(i < Len(data)) THEN out
    ELSE IF i + 2 < Len(data) /\ data[i + 1] = 0 /\ data[i + 2] = 0 /\ data[i + 3] = 3
    THEN RemoveLoop(data, i + 3, out \o << 0, 0 >>)
    ELSE RemoveLoop(data, i + 1, Append(out, data[i + 1]))

\* remove_emulation_prevention
remove_emulation_prevention(data) == RemoveLoop(data, 0, << >>)

\* the value of `call` for a call on byte strings
BytesCall(op, start_code, payload, split, out) ==
    [op |-> op, start_code |-> start_code, payload |-> payload, split |-> split, out |-> out]

InitH264 == Built(IdleExecutors) /\ call = NoCall

\* split_annex_b(data), for data with and without a start code in front
SplitAnnexB ==
    /\ call.op = "none"
    /\ \E start_code \in { << >>, << 0, 0, 1 >>, << 0, 0, 0, 1 >> }, payload \in ByteStrings :
           call' = BytesCall("split_annex_b", start_code, payload,
                             split_annex_b(start_code \o payload), << >>)
    /\ UNCHANGED run

\* remove_emulation_prevention(data)
RemoveEmulationPrevention ==
    /\ call.op = "none"
    /\ \E data \in ByteStrings :
           call' = BytesCall("remove_emulation_prevention", << >>, data,
                             split_annex_b(<< >>), remove_emulation_prevention(data))
    /\ UNCHANGED run

NextH264 == SplitAnnexB \/ RemoveEmulationPrevention

SpecH264 == InitH264 /\ [][NextH264]_vars

\* C19: split_annex_b of the start code 00 00 01 followed by a non-empty
\* byte string N yields exactly one NAL unit, whose payload is all of N
\* and whose nal_type is the low five bits of the first byte of N.
C19_OneNalPerStartCode ==
    /\ call.op = "split_annex_b"
    /\ call.start_code = << 0, 0, 1 >>
    /\ call.payload # << >>
    => /\ call.split.ok
       /\ Len(call.split.units) = 1
       /\ call.split.units[1].payload = call.payload
       /\ call.split.units[1].nal_type = call.payload[1] % 32

\* the length of the start code at index i (from 0) of data: 4 for
\* 00 00 00 01, 3 for 00 00 01, 0 when there is none
StartCodeAt(data, i) ==
    IF i + 4 <= Len(data) /\ Slice(data, i, i + 4) = << 0, 0, 0, 1 >> THEN 4
    ELSE IF i + 3 <= Len(data) /\ Slice(data, i, i + 3) = << 0, 0, 1 >> THEN 3
    ELSE 0

\* the index of the first start code at or after i, Len(data) without one
RECURSIVE NextStartCode(_, _)
NextStartCode(data, i) ==
    IF i >= Len(data) THEN Len(data)
    ELSE IF StartCodeAt(data, i) > 0 THEN i
    ELSE NextStartCode(data, i + 1)

\* the payloads of the stream from index i on: each runs from the byte
\* after its start code up to the next start code or the end of the
\* stream, and an empty one is dropped
RECURSIVE PayloadsFrom(_, _)
PayloadsFrom(data, i) ==
    LET code == NextStartCode(data, i) IN
    IF code >= Len(data) THEN << >>
    ELSE LET start == code + StartCodeAt(data, code)
             end == NextStartCode(data, start)
         IN  (IF end > start THEN << Slice(data, start, end) >> ELSE << >>)
                 \o PayloadsFrom(data, end)

\* C24: each payload split_annex_b produces starts at the byte after its
\* start code and ends immediately before the next start code, of either
\* form (no byte of a following 00 00 00 01 belongs to it); payloads that
\* would be empty are dropped.
C24_PayloadBoundaries ==
    call.op = "split_annex_b" =>
        LET expected == PayloadsFrom(call.start_code \o call.payload, 0) IN
        /\ call.split.ok = (expected # << >>)
        /\ Len(call.split.units) = Len(expected)
        /\ \A n \in 1..Len(expected) : call.split.units[n].payload = expected[n]

\* the indices at which 00 00 03 starts in data
Occurrences(data) ==
    { p \in 1..(Len(data) - 2) : SubSeq(data, p, p + 2) = << 0, 0, 3 >> }

\* data without the bytes at the indices of `dropped`
RECURSIVE Without(_, _, _)
Without(data, dropped, p) ==
    IF p > Len(data) THEN << >>
    ELSE (IF p \in dropped THEN << >> ELSE << data[p] >>) \o Without(data, dropped, p + 1)

\* C20: remove_emulation_prevention returns a byte string without 00 00 03
\* unchanged, and in general the string without the 03 of each 00 00 03 and
\* with every other byte kept.
C20_EmulationPrevention ==
    call.op = "remove_emulation_prevention" =>
        /\ Occurrences(call.payload) = {} => call.out = call.payload
        /\ call.out = Without(call.payload,
                              { p + 2 : p \in Occurrences(call.payload) }, 1)

\* Both prevention bytes of 00 00 03 00 00 03 have been removed.
C20_Witness ==
    /\ call.op = "remove_emulation_prevention"
    /\ call.payload = << 0, 0, 3, 0, 0, 3 >>
    /\ call.out = << 0, 0, 0, 0 >>

-----------------------------------------------------------------------------
(* observability.rs under concurrency: the executor's thread updates the   *)
(* collector, the threads of the metrics server read it.  Every method     *)
(* works on the MetricsSnapshot inside Arc<Mutex<..>> after lock().  The    *)
(* update of a stage by a timer is three assignments under one guard.      *)

MaxUpdates == 3

\* the threads that serve GET /metrics and GET /metrics.json
Readers == {"metrics", "metrics.json"}

\* a lock() that does not wait for the holder
MutexLock_NoWait(holder) == TRUE

\* Mutex::lock returns when no thread holds the guard
MutexLock(holder) == holder = "none"

\* the updates of the executor: a timer's record for a stage, the two
\* quality counters, the total duration, reset
UpdateChoices == {"record", "record_quality_pass", "record_quality_failure",
                  "record_total_duration", "reset"}

\* no snapshot returned yet
NoCopy == [taken |-> FALSE, version |-> 0, value |-> DefaultSnapshot]

\* MetricsCollector::new: the state, the holder of the guard, the position
\* of the executor in its update, the states the collector had between
\* updates, and each reader's position and last returned snapshot
InitCollector ==
    /\ Built(IdleExecutors)
    /\ call = [ op |-> "collector", inner |-> DefaultSnapshot, holder |-> "none",
                wpc |-> "idle", history |-> << DefaultSnapshot >>,
                rpc |-> [r \in Readers |-> "idle"],
                copies |-> [r \in Readers |-> NoCopy] ]

\* the executor takes the guard for one update
UpdateLock ==
    /\ call.op = "collector"
    /\ call.wpc = "idle"
    /\ Len(call.history) <= MaxUpdates
    /\ MutexLock(call.holder)
    /\ \E u \in UpdateChoices :
           call' = [call EXCEPT !.holder = "executor",
                                !.wpc = IF u = "record" THEN "calls" ELSE u]
    /\ UNCHANGED run

\* the guard is dropped: the update is complete
Unlocked(c, m) ==
    [c EXCEPT !.inner = m, !.holder = "none", !.wpc = "idle",
              !.history = Append(c.history, m)]

\* StageTimer::record: entry(stage).or_default(), metrics.calls += 1
RecordCalls ==
    /\ call.op = "collector"
    /\ call.wpc = "calls"
    /\ LET old == Get(call.inner.stages, "decode", DefaultStageMetrics) IN
       call' = [call EXCEPT !.inner.stages = Put(@, "decode", [old EXCEPT !.calls = @ + 1]),
                            !.wpc = "total"]
    /\ UNCHANGED run

\* StageTimer::record: metrics.total_duration_ms += duration_ms
RecordTotal ==
    /\ call.op = "collector"
    /\ call.wpc = "total"
    /\ call' = [call EXCEPT !.inner.stages["decode"].total_duration_ms = @ + Elapsed,
                            !.wpc = "max"]
    /\ UNCHANGED run

\* StageTimer::record: the maximum, and the guard is dropped
RecordMax ==
    /\ call.op = "collector"
    /\ call.wpc = "max"
    /\ LET old == call.inner.stages["decode"]
           new == IF Elapsed > old.max_duration_ms
                  THEN [old EXCEPT !.max_duration_ms = Elapsed] ELSE old
       IN  call' = Unlocked(call, [call.inner EXCEPT !.stages["decode"] = new])
    /\ UNCHANGED run

\* record_quality_pass, record_quality_failure, record_total_duration,
\* reset: one assignment under the guard
UpdateOnce ==
    /\ call.op = "collector"
    /\ call.wpc \in UpdateChoices \ {"record"}
    /\ call' = Unlocked(call,
                  CASE call.wpc = "record_quality_pass" -> record_quality_pass(call.inner)
                    [] call.wpc = "record_quality_failure" -> record_quality_failure(call.inner)
                    [] call.wpc = "record_total_duration"
                         -> record_total_duration(call.inner, Elapsed)
                    [] OTHER -> reset(call.inner))
    /\ UNCHANGED run

\* MetricsCollector::snapshot in handle_request: self.inner.lock()
SnapshotLock ==
    /\ call.op = "collector"
    /\ \E r \in Readers :
        /\ call.rpc[r] = "idle"
        /\ MutexLock(call.holder)
        /\ call' = [call EXCEPT !.holder = r, !.rpc[r] = "locked"]
    /\ UNCHANGED run

\* snapshot: g.clone(), the guard is dropped and the copy returned
SnapshotClone ==
    /\ call.op = "collector"
    /\ \E r \in Readers :
        /\ call.rpc[r] = "locked"
        /\ call' = [call EXCEPT !.holder = IF call.holder = r THEN "none" ELSE @,
                                !.rpc[r] = "idle",
                                !.copies[r] = [ taken |-> TRUE,
                                                version |-> Len(call.history),
                                                value |-> snapshot(call.inner) ]]
    /\ UNCHANGED run

NextCollector ==
    \/ UpdateLock \/ RecordCalls \/ RecordTotal \/ RecordMax \/ UpdateOnce
    \/ SnapshotLock \/ SnapshotClone

SpecCollector == InitCollector /\ [][NextCollector]_vars

\* C22: with the executor updating the collector and readers taking
\* snapshots at any time, every returned snapshot is, and stays, equal to
\* the state the collector had between the two updates around the read,
\* and so never shows a stage with its call counted and its duration not
\* yet added.
C22_SnapshotsAtomic ==
    call.op = "collector" =>
        \A r \in Readers :
            call.copies[r].taken =>
                /\ call.copies[r].version \in 1..Len(call.history)
                /\ call.copies[r].value = call.history[call.copies[r].version]
                /\ \A n \in DOMAIN call.copies[r].value.stages :
                       LET sm == call.copies[r].value.stages[n] IN
                       /\ sm.total_duration_ms = sm.calls * Elapsed
                       /\ sm.max_duration_ms = Elapsed

\* The executor is in the middle of a timer's record, with the call
\* counted and the duration not added; one reader holds a snapshot of an
\* earlier state with one call, the other has not read yet.
C22_Witness ==
    /\ call.op = "collector"
    /\ call.wpc = "total"
    /\ call.inner.stages["decode"].calls = 2
    /\ call.inner.stages["decode"].total_duration_ms = 1
    /\ call.copies["metrics"].taken
    /\ call.copies["metrics"].value.stages["decode"].calls = 1
    /\ call.copies["metrics"].value # call.inner
    /\ call.rpc["metrics.json"] = "idle"
    /\ ~call.copies["metrics.json"].taken

-----------------------------------------------------------------------------
(* stages/mod.rs: the quality encode_jpeg passes to the JPEG encoder.      *)

MaxQuality == 300

\* str::parse::<u64> on the strings of the model
parse_u64(str) ==
    CASE str = "30" -> Some(30)
      [] str = "400" -> Some(400)
      [] OTHER -> None

\* value_as_u64: Number::as_u64 is None for a negative number
value_as_u64(value) ==
    CASE value.type = "number" -> IF value.n >= 0 THEN Some(value.n) ELSE None
      [] value.type = "string" -> parse_u64(value.s)
      [] OTHER -> IF value.b THEN Some(1) ELSE Some(0)

\* param_u8: u8::try_from(value).ok() is None above 255
param_u8(options, k) ==
    IF k \notin DOMAIN options THEN None
    ELSE LET value == value_as_u64(options[k]) IN
         IF value = None THEN None
         ELSE IF Unwrap(value) < 2 ^ 8 THEN value ELSE None

\* Ord::clamp
clamp(x, lo, hi) == IF x < lo THEN lo ELSE IF x > hi THEN hi ELSE x

\* encode_jpeg: param_u8(options, "quality").unwrap_or(90).clamp(1, 100)
jpeg_quality(options) ==
    LET quality == param_u8(options, "quality") IN
    clamp(IF quality = None THEN 90 ELSE Unwrap(quality), 1, 100)

\* the options of a JPEG encode: no quality, every integer quality up to
\* MaxQuality, and a quality written as a string or as a boolean
QualityOptions ==
    { EmptyMap } \cup { Put(EmptyMap, "quality", JNumber(q)) : q \in 0..MaxQuality }
    \cup { Put(EmptyMap, "quality", v) : v \in {JString("30"), JString("400"), JBool(TRUE)} }

InitJpeg == Built(IdleExecutors) /\ call = NoCall

\* encode_jpeg(image, options) builds its encoder
EncodeJpeg ==
    /\ call.op = "none"
    /\ \E options \in QualityOptions :
           call' = [op |-> "encode_jpeg", options |-> options,
                    quality |-> jpeg_quality(options)]
    /\ UNCHANGED run

SpecJpeg == InitJpeg /\ [][EncodeJpeg]_vars

\* C23: the quality passed to the JPEG encoder is the supplied integer
\* quality clamped into 1..100 (100 for every quality above 100, 1 for 0),
\* and 90 when no quality is supplied.
C23_JpegQualityClamped ==
    call.op = "encode_jpeg" =>
        IF "quality" \notin DOMAIN call.options THEN call.quality = 90
        ELSE call.options["quality"].type = "number" =>
                 call.quality = clamp(call.options["quality"].n, 1, 100)

\* ---------------------------------------------------------------------
\* video/h264.rs: the SPS parser and decode_annex_b
\* ---------------------------------------------------------------------

\* A u32 is kept as two 16-bit halves, so that the full 32-bit width and
\* its wrap-around are kept.
Half == 65536

u32(n) == [hi |-> n \div Half, lo |-> n % Half]

\* u32::overflowing_add: the wrapped sum and whether it overflowed
overflowing_add(a, b) ==
    LET lo == a.lo + b.lo
        hi == a.hi + b.hi + (lo \div Half)
    IN  [v |-> [hi |-> hi % Half, lo |-> lo % Half], overflow |-> hi >= Half]

\* u32::overflowing_sub
overflowing_sub(a, b) ==
    LET lo == a.lo - b.lo
        hi == a.hi - b.hi - (IF lo < 0 THEN 1 ELSE 0)
    IN  [v |-> [hi |-> (hi + Half) % Half, lo |-> (lo + Half) % Half],
         overflow |-> hi < 0]

\* u32::overflowing_mul by a small factor (2 and 16 in parse_sps)
overflowing_mul(a, k) ==
    LET lo == a.lo * k
        hi == a.hi * k + (lo \div Half)
    IN  [v |-> [hi |-> hi % Half, lo |-> lo % Half], overflow |-> hi >= Half]

\* 1 << zeros: a shift by 32 or more overflows; the wrapped result shifts
\* by zeros % 32
overflowing_shl(zeros) ==
    LET s == zeros % 32 IN
    [v |-> IF s < 16 THEN [hi |-> 0, lo |-> 2 ^ s]
                     ELSE [hi |-> 2 ^ (s - 16), lo |-> 0],
     overflow |-> zeros >= 32]

\* u32::max
u32_max(a, b) ==
    IF a.hi > b.hi \/ (a.hi = b.hi /\ a.lo >= b.lo) THEN a ELSE b

\* `ue as i32`
as_i32(a) ==
    IF a.hi < 32768 THEN a.hi * Half + a.lo
    ELSE (a.hi - Half) * Half + a.lo

\* BitReader::new; value holds the result of the last read, err that a
\* read bailed with "bitstream overread", overflow that the arithmetic of
\* a read overflowed its type, and kept the values parse_sps binds to
\* names and uses after later reads
BitReader_new(data) ==
    [data |-> data, bit_pos |-> 0, value |-> u32(0),
     err |-> FALSE, overflow |-> FALSE,
     kept |-> [pic_width_in_mbs_minus1 |-> u32(0),
               pic_height_in_map_units_minus1 |-> u32(0),
               frame_mbs_only_flag |-> u32(0),
               crop_left |-> u32(0), crop_right |-> u32(0),
               crop_top |-> u32(0), crop_bottom |-> u32(0)]]

RECURSIVE ReadBitsLoop(_, _)
ReadBitsLoop(r, count) ==
    IF count = 0 THEN r
    ELSE LET byte_pos == r.bit_pos \div 8 IN
         IF byte_pos >= Len(r.data) THEN [r EXCEPT !.err = TRUE]
         ELSE LET bit_offset == 7 - (r.bit_pos % 8)
                  bit == (r.data[byte_pos + 1] \div (2 ^ bit_offset)) % 2
                  shifted == overflowing_mul(r.value, 2).v
              IN  ReadBitsLoop([r EXCEPT !.value = [shifted EXCEPT !.lo = @ + bit],
                                         !.bit_pos = @ + 1],
                               count - 1)

\* BitReader::read_bits; a reader that has bailed stays as it is (the ?
\* operator returns from the caller)
read_bits(r, count) ==
    IF r.err THEN r
    ELSE ReadBitsLoop([r EXCEPT !.value = u32(0)], count)

\* read_ue, the loop `while self.read_bits(1)? == 0 { zeros += 1 }`: b is
\* the reader after the read of one bit
RECURSIVE CountZeros(_, _)
ZerosAfter(b, zeros) ==
    IF b.err \/ b.value # u32(0) THEN [r |-> b, zeros |-> zeros]
    ELSE CountZeros(b, zeros + 1)

CountZeros(r, zeros) == ZerosAfter(read_bits(r, 1), zeros)

\* read_ue, the value (1 << zeros) - 1 + suffix: s is the reader after the
\* read of the suffix
UeValue(s, zeros) ==
    IF s.err THEN s
    ELSE LET shl == overflowing_shl(zeros)
             dec == overflowing_sub(shl.v, u32(1))
             sum == overflowing_add(dec.v, s.value)
         IN  [s EXCEPT !.value = sum.v,
                       !.overflow = @ \/ shl.overflow \/ dec.overflow
                                      \/ sum.overflow]

\* read_ue after the leading zeros have been counted
UeAfterZeros(z) ==
    IF z.r.err THEN z.r
    ELSE IF z.zeros = 0 THEN [z.r EXCEPT !.value = u32(0)]
    ELSE UeValue(read_bits(z.r, z.zeros), z.zeros)

\* BitReader::read_ue
read_ue(r) == IF r.err THEN r ELSE UeAfterZeros(CountZeros(r, 0))

\* read_se, the signed value of the code u
SeValue(u, ue) ==
    IF u.err THEN [r |-> u, se |-> 0]
    ELSE IF ue % 2 = 0 THEN [r |-> u, se |-> -(ue \div 2)]
    ELSE IF ue = 2147483647
         THEN [r |-> [u EXCEPT !.overflow = TRUE], se |-> -1073741824]
    ELSE [r |-> u, se |-> (ue + 1) \div 2]

SeOf(u) == SeValue(u, as_i32(u.value))

\* BitReader::read_se: the reader and the signed value
read_se(r) == SeOf(read_ue(r))

\* the % of Rust truncates towards zero
rem(x, m) == IF x >= 0 THEN x % m ELSE -((-x) % m)

\* skip_scaling_list(reader, size) with `size` rounds to go; d is the delta
\* read in this round, next the new next_scale
RECURSIVE skip_scaling_list(_, _, _, _)
ScaleNext(r, size, last_scale, next) ==
    skip_scaling_list(r, size - 1, IF next # 0 THEN next ELSE last_scale, next)

ScaleAfter(d, size, last_scale) ==
    ScaleNext(d.r, size, last_scale, rem(last_scale + d.se + 256, 256))

skip_scaling_list(r, size, last_scale, next_scale) ==
    IF size = 0 \/ r.err THEN r
    ELSE IF next_scale # 0 THEN ScaleAfter(read_se(r), size, last_scale)
    ELSE ScaleNext(r, size, last_scale, next_scale)

\* parse_sps, the loop over the eight scaling lists from list i on;
\* present is the reader after the read of the flag of list i
RECURSIVE ScalingLists(_, _)
ListAfter(present, i) ==
    ScalingLists(IF ~present.err /\ present.value = u32(1)
                 THEN skip_scaling_list(present, IF i < 6 THEN 16 ELSE 64, 8, 8)
                 ELSE present,
                 i + 1)

ScalingLists(r, i) ==
    IF i = 8 \/ r.err THEN r ELSE ListAfter(read_bits(r, 1), i)

\* SequenceState::default
SequenceState_default == [width |-> u32(0), height |-> u32(0)]

\* parse_sps(payload, sequence). overflow_checks is the build's setting
\* (on in the dev and test profiles, off in the release profile): with it
\* an arithmetic overflow panics, without it the value wraps. The outcome
\* is "ok" with the new sequence, "err" (a read bailed) or "panic".

\* `let field = reader.read_..()?`: the value read last is bound to a name
Keep(r, field) == [r EXCEPT !.kept[field] = r.value]

\* `if flag == v { reader.read_bits(count)?; }` on the value read last
ReadBitsWhen(r, v, count) == IF r.value = v THEN read_bits(r, count) ELSE r

\* `if flag == v { reader.read_ue()?; }` on the value read last
ReadUeWhen(r, v) == IF r.value = v THEN read_ue(r) ELSE r

\* `if seq_scaling_matrix_present_flag == 1 { for i in 0..8 { .. } }`
ScalingWhen(r) == IF r.value = u32(1) THEN ScalingLists(r, 0) ELSE r

\* the four crop offsets: read when frame_cropping_flag is 1, else zero
Cropping(r) ==
    IF r.value = u32(1)
    THEN Keep(read_ue(Keep(read_ue(Keep(read_ue(Keep(read_ue(r),
              "crop_left")), "crop_right")), "crop_top")), "crop_bottom")
    ELSE r

\* (in_mbs * 16) - 2 * (crop_a + crop_b), with whether a step overflowed
Dimension(in_mbs, crop_a, crop_b) ==
    LET coded == overflowing_mul(in_mbs.v, 16)
        crop == overflowing_add(crop_a, crop_b)
        crop2 == overflowing_mul(crop.v, 2)
        out == overflowing_sub(coded.v, crop2.v)
    IN  [v |-> out.v,
         overflow |-> in_mbs.overflow \/ coded.overflow \/ crop.overflow
                          \/ crop2.overflow \/ out.overflow]

\* frame_height_in_mbs
FrameHeightInMbs(height_in_map_units, frame_mbs_only_flag) ==
    IF frame_mbs_only_flag = u32(1) THEN height_in_map_units
    ELSE [v |-> overflowing_mul(height_in_map_units.v, 2).v,
          overflow |-> height_in_map_units.overflow
                           \/ overflowing_mul(height_in_map_units.v, 2).overflow]

\* parse_sps after the reads: the arithmetic on the values kept
SpsDimensions(kept) ==
    [width |-> Dimension(overflowing_add(kept.pic_width_in_mbs_minus1, u32(1)),
                         kept.crop_left, kept.crop_right),
     height |-> Dimension(
                    FrameHeightInMbs(
                        overflowing_add(kept.pic_height_in_map_units_minus1, u32(1)),
                        kept.frame_mbs_only_flag),
                    kept.crop_top, kept.crop_bottom)]

SpsOutcome(reader, dims, sequence, overflow_checks) ==
    IF overflow_checks /\ reader.overflow
    THEN [outcome |-> "panic", sequence |-> sequence]
    ELSE IF reader.err THEN [outcome |-> "err", sequence |-> sequence]
    ELSE IF overflow_checks /\ (dims.width.overflow \/ dims.height.overflow)
    THEN [outcome |-> "panic", sequence |-> sequence]
    ELSE [outcome |-> "ok",
          sequence |-> [width |-> dims.width.v, height |-> dims.height.v]]

SpsResult(reader, sequence, overflow_checks) ==
    SpsOutcome(reader, SpsDimensions(reader.kept), sequence, overflow_checks)

parse_sps(payload, sequence, overflow_checks) ==
    LET rbsp == remove_emulation_prevention(payload)
        profile_idc == read_bits(BitReader_new(rbsp), 8)
        constraint == read_bits(profile_idc, 8)
        level_idc == read_bits(constraint, 8)
        seq_parameter_set_id == read_ue(level_idc)
        chroma_format_idc == read_ue(seq_parameter_set_id)
        separate_colour_plane_flag == ReadBitsWhen(chroma_format_idc, u32(3), 1)
        bit_depth_luma_minus8 == read_ue(separate_colour_plane_flag)
        bit_depth_chroma_minus8 == read_ue(bit_depth_luma_minus8)
        qpprime_y_zero_transform_bypass_flag == read_bits(bit_depth_chroma_minus8, 1)
        seq_scaling_matrix_present_flag ==
            read_bits(qpprime_y_zero_transform_bypass_flag, 1)
        scaling_lists == ScalingWhen(seq_scaling_matrix_present_flag)
        log2_max_frame_num_minus4 == read_ue(scaling_lists)
        pic_order_cnt_type == read_ue(log2_max_frame_num_minus4)
        log2_max_pic_order_cnt_lsb_minus4 == ReadUeWhen(pic_order_cnt_type, u32(0))
        max_num_ref_frames == read_ue(log2_max_pic_order_cnt_lsb_minus4)
        gaps_in_frame_num_value_allowed_flag == read_bits(max_num_ref_frames, 1)
        pic_width_in_mbs_minus1 ==
            Keep(read_ue(gaps_in_frame_num_value_allowed_flag),
                 "pic_width_in_mbs_minus1")
        pic_height_in_map_units_minus1 ==
            Keep(read_ue(pic_width_in_mbs_minus1), "pic_height_in_map_units_minus1")
        frame_mbs_only_flag ==
            Keep(read_bits(pic_height_in_map_units_minus1, 1), "frame_mbs_only_flag")
        mb_adaptive_frame_field_flag == ReadBitsWhen(frame_mbs_only_flag, u32(0), 1)
        direct_8x8_inference_flag == read_bits(mb_adaptive_frame_field_flag, 1)
        frame_cropping_flag == read_bits(direct_8x8_inference_flag, 1)
    IN  SpsResult(Cropping(frame_cropping_flag), sequence, overflow_checks)

\* parse_pps(payload)
parse_pps(payload) == payload # << >>

\* a VideoFrame that is marked as a keyframe whatever the NAL type
VideoFrame_AlwaysKeyframe(width, height, keyframe) ==
    [width |-> width, height |-> height, pixel_format |-> "Yuv420",
     keyframe |-> TRUE]

\* VideoFrame: dimensions and keyframe flag (planes are empty, the
\* timestamp is zero and the duration is that of 30 frames a second)
VideoFrame(width, height, keyframe) ==
    [width |-> width, height |-> height, pixel_format |-> "Yuv420",
     keyframe |-> keyframe]

\* FrameRate::Constant
FrameRate(numerator, denominator) ==
    [numerator |-> numerator, denominator |-> denominator]

\* VideoStream (the colour space is always Bt709)
VideoStream(codec, frame_rate, frames) ==
    [codec |-> codec, frame_rate |-> frame_rate, frames |-> frames]

\* MediaStreams::default
MediaStreams_default == [video |-> None]

\* the loop of decode_annex_b over the NAL units, from unit n on
RECURSIVE DecodeLoop(_, _, _, _, _)
\* the SPS arm: a failed parse falls back to at least 640x360
AfterSps(sps, nals, n, sequence, frames, overflow_checks) ==
    IF sps.outcome = "panic"
    THEN [outcome |-> "panic", err |-> NoLabel, sequence |-> sequence,
          frames |-> frames]
    ELSE IF sps.outcome = "err"
    THEN DecodeLoop(nals, n + 1,
                    [width |-> u32_max(sequence.width, u32(640)),
                     height |-> u32_max(sequence.height, u32(360))],
                    frames, overflow_checks)
    ELSE DecodeLoop(nals, n + 1, sps.sequence, frames, overflow_checks)

\* the slice arm, `if sequence.width == 0 { .. }` and the same for height
Seeded(sequence) ==
    [width |-> IF sequence.width = u32(0) THEN u32(640) ELSE sequence.width,
     height |-> IF sequence.height = u32(0) THEN u32(360) ELSE sequence.height]

\* the slice arm with the sequence seeded: one frame is pushed
AfterSlice(seeded, nals, n, frames, overflow_checks) ==
    DecodeLoop(nals, n + 1, seeded,
               Append(frames, VideoFrame(u32_max(seeded.width, u32(1)),
                                         u32_max(seeded.height, u32(1)),
                                         nals[n].nal_type = 5)),
               overflow_checks)

DecodeLoop(nals, n, sequence, frames, overflow_checks) ==
    IF n > Len(nals)
    THEN [outcome |-> "ok", err |-> NoLabel, sequence |-> sequence, frames |-> frames]
    ELSE IF nals[n].nal_type = 7
    THEN AfterSps(parse_sps(nals[n].payload, sequence, overflow_checks),
                  nals, n, sequence, frames, overflow_checks)
    ELSE IF nals[n].nal_type = 8
    THEN IF parse_pps(nals[n].payload)
         THEN DecodeLoop(nals, n + 1, sequence, frames, overflow_checks)
         ELSE [outcome |-> "err", err |-> "pps payload is empty",
               sequence |-> sequence, frames |-> frames]
    ELSE IF nals[n].nal_type \in {5, 1}
    THEN AfterSlice(Seeded(sequence), nals, n, frames, overflow_checks)
    ELSE DecodeLoop(nals, n + 1, sequence, frames, overflow_checks)

\* decode_annex_b after its loop: no frame is an error, else the video
\* stream is replaced
AfterLoop(loop, streams) ==
    IF loop.outcome # "ok"
    THEN [outcome |-> loop.outcome, err |-> loop.err, streams |-> streams]
    ELSE IF loop.frames = << >>
    THEN [outcome |-> "err", err |-> "no video frames decoded",
          streams |-> streams]
    ELSE [outcome |-> "ok", err |-> NoLabel,
          streams |-> [streams EXCEPT
                           !.video = Some(VideoStream("H264",
                                         FrameRate(u32(30), u32(1)),
                                         loop.frames))]]

\* decode_annex_b after split_annex_b
AfterSplit(split, streams, overflow_checks) ==
    IF ~split.ok
    THEN [outcome |-> "err", err |-> split.err, streams |-> streams]
    ELSE AfterLoop(DecodeLoop(split.units, 1, SequenceState_default, << >>,
                              overflow_checks),
                   streams)

\* a decode_annex_b that leaves a video stream that is already there
KeepsStream(streams, result) ==
    IF result.outcome = "ok" /\ streams.video # None
    THEN [result EXCEPT !.streams = streams]
    ELSE result

decode_annex_b_KeepsStream(data, streams, overflow_checks) ==
    KeepsStream(streams, AfterSplit(split_annex_b(data), streams, overflow_checks))

\* decode_annex_b(data, streams): the outcome ("ok", "err" or "panic") and
\* the streams it leaves
decode_annex_b(data, streams, overflow_checks) ==
    AfterSplit(split_annex_b(data), streams, overflow_checks)

\* ---------------------------------------------------------------------
\* Calls of decode_annex_b on streams of NAL units
\* ---------------------------------------------------------------------

MaxNals == 3

\* the bytes of a string of bits, the last byte filled with zero bits
RECURSIVE Pack(_)
Pack(bits) ==
    IF bits = << >> THEN << >>
    ELSE IF Len(bits) < 8 THEN Pack(bits \o << 0 >>)
    ELSE << 128 * bits[1] + 64 * bits[2] + 32 * bits[3] + 16 * bits[4]
            + 8 * bits[5] + 4 * bits[6] + 2 * bits[7] + bits[8] >>
         \o Pack(SubSeq(bits, 9, Len(bits)))

\* a run of n equal bits
Bits(b, n) == [i \in 1..n |-> b]

\* The NAL header of an SPS (type 7) with the constraint and level bytes
SpsHeader == << 103, 66, 224 >>

\* ids, chroma format and bit depths zero, no scaling matrix, frame
\* number and picture order count fields zero
SpsFields == << 1, 1, 1, 1, 0, 0, 1, 1, 1, 1, 0 >>

\* 2 by 1 macroblocks, frames only, no cropping: 32x16
SpsSmall == SpsHeader \o Pack(SpsFields \o << 0, 1, 0,  1,  1, 1, 0 >>)

\* a scaling matrix with one list of sixteen zero deltas, 3 by 2
\* macroblocks: 48x32
SpsScaling ==
    SpsHeader \o Pack(<< 1, 1, 1, 1, 0, 1 >> \o << 1 >> \o Bits(1, 16) \o Bits(0, 7)
                      \o << 1, 1, 1, 1, 0,  0, 1, 1,  0, 1, 0,  1, 1, 0 >>)

\* cut off after the constraint byte: the third read overreads
SpsOverread == << 103, 66 >>

\* 1 by 1 macroblocks with a left crop of 9: 2 * 9 is larger than 16
SpsCropped ==
    SpsHeader \o Pack(SpsFields \o << 1,  1,  1, 1,  1,  0, 0, 0, 1, 0, 1, 0,  1, 1, 1 >>)

\* an id coded with 32 leading zero bits and a suffix of 32 one bits,
\* followed by the fields of SpsSmall
SpsLongZeros ==
    SpsHeader \o Pack(Bits(0, 32) \o << 1 >> \o Bits(1, 32)
                      \o SubSeq(SpsFields, 2, Len(SpsFields))
                      \o << 0, 1, 0,  1,  1, 1, 0 >>)

\* an IDR slice (type 5), a non-IDR slice (type 1), an SEI (type 6), a PPS
\* (type 8) and the SPS units
NalChoices ==
    { << 101, 136 >>, << 65, 154 >>, << 6, 5 >>, << 104, 206 >>,
      SpsSmall, SpsScaling, SpsOverread, SpsCropped, SpsLongZeros }

\* the byte stream of the units, each behind a three-byte start code
RECURSIVE AnnexB(_)
AnnexB(units) ==
    IF units = << >> THEN << >>
    ELSE << 0, 0, 1 >> \o Head(units) \o AnnexB(Tail(units))

\* the streams a call of decode_annex_b finds: empty, or with the video
\* stream without frames of Mp4Demuxer::demux
StreamChoices ==
    { MediaStreams_default,
      [MediaStreams_default EXCEPT
           !.video = Some(VideoStream("Unknown", FrameRate(u32(0), u32(1)), << >>))] }

InitVideo == Built(IdleExecutors) /\ call = NoCall

\* decode_annex_b(data, streams) on a stream of units that ends with or
\* without a start code, in a build with or without overflow checks
DecodeAnnexB ==
    /\ call.op = "none"
    /\ \E units \in SeqsUpTo(NalChoices, MaxNals) \ {<< >>},
          tail \in { << >>, << 0, 0, 1 >> },
          streams \in StreamChoices, overflow_checks \in BOOLEAN :
           LET data == AnnexB(units) \o tail IN
           call' = [op |-> "decode_annex_b", data |-> data, before |-> streams,
                    overflow_checks |-> overflow_checks,
                    result |-> decode_annex_b(data, streams, overflow_checks)]
    /\ UNCHANGED run

NextVideo == DecodeAnnexB

SpecVideo == InitVideo /\ [][NextVideo]_vars

\* the NAL units decode_annex_b works on
NalsOf(data) == split_annex_b(data).units

\* the sequence state after the first n NAL units, as the loop leaves it
SequenceAfter(c, n) ==
    DecodeLoop(SubSeq(NalsOf(c.data), 1, n), 1, SequenceState_default, << >>,
               c.overflow_checks).sequence

\* the number of NAL units of type 1 or 5 among the first n
FramesUpTo(nals, n) == Cardinality({ m \in 1..n : nals[m].nal_type \in {1, 5} })

Malformed(payload) == parse_sps(payload, SequenceState_default, TRUE).outcome # "ok"

\* C26: an SPS unit whose parse does not complete never makes
\* decode_annex_b abort: the call goes on with a sequence of at least
\* 640x360, which the frames up to the next SPS carry.
C26_SpsDegradation ==
    call.op = "decode_annex_b" =>
        LET nals == NalsOf(call.data) IN
        /\ call.result.outcome # "panic"
        /\ \A n \in 1..Len(nals) :
             (nals[n].nal_type = 7 /\ Malformed(nals[n].payload)) =>
                 LET sequence == SequenceAfter(call, n) IN
                 /\ u32_max(sequence.width, u32(640)) = sequence.width
                 /\ u32_max(sequence.height, u32(360)) = sequence.height
                 /\ \A m \in (n + 1)..Len(nals) :
                      (/\ nals[m].nal_type \in {1, 5}
                       /\ \A k \in (n + 1)..m : nals[k].nal_type # 7
                       /\ call.result.outcome = "ok") =>
                          \A video \in call.result.streams.video :
                              LET frame == video.frames[FramesUpTo(nals, m)] IN
                              /\ frame.width = sequence.width
                              /\ frame.height = sequence.height

\* ---------------------------------------------------------------------
\* video/container.rs: the ISO-BMFF demuxer
\* ---------------------------------------------------------------------

\* read_u32: four bytes, big endian
read_u32(buf) == [hi |-> buf[1] * 256 + buf[2], lo |-> buf[3] * 256 + buf[4]]

\* the bytes of an atom kind
Moov == << 109, 111, 111, 118 >>
Trak == << 116, 114, 97, 107 >>
Tkhd == << 116, 107, 104, 100 >>
Mdia == << 109, 100, 105, 97 >>
Hdlr == << 104, 100, 108, 114 >>
Mdhd == << 109, 100, 104, 100 >>
Minf == << 109, 105, 110, 102 >>
Stbl == << 115, 116, 98, 108 >>
Stsd == << 115, 116, 115, 100 >>
Vide == << 118, 105, 100, 101 >>
Soun == << 115, 111, 117, 110 >>

\* the VideoCodec of a sample entry
VideoCodec(codec_fourcc) ==
    IF codec_fourcc = << 97, 118, 99, 49 >> THEN "H264"
    ELSE IF codec_fourcc = << 104, 118, 99, 49 >> THEN "H265"
    ELSE IF codec_fourcc = << 118, 112, 48, 57 >> THEN "Vp9"
    ELSE IF codec_fourcc = << 97, 118, 48, 49 >> THEN "Av1"
    ELSE "Unknown"

\* the atoms read_atom returns from position pos on, one call after the
\* other, until the end of the buffer (ok) or the call that fails (the
\* buffers of the model are shorter than 65536 bytes, so a size with a
\* high half exceeds the buffer)
RECURSIVE read_atoms(_, _, _)
\* read_atom at pos, once the four bytes of the size are read
read_atom(data, pos, size, atoms) ==
    IF size.hi = 0 /\ size.lo < 8 THEN [ok |-> FALSE, atoms |-> atoms]
    ELSE IF pos + 8 > Len(data) THEN [ok |-> FALSE, atoms |-> atoms]
    ELSE IF size.hi > 0 \/ pos + 8 + (size.lo - 8) > Len(data)
    THEN [ok |-> FALSE, atoms |-> atoms]
    ELSE read_atoms(data, pos + 8 + (size.lo - 8),
                    Append(atoms, [kind |-> Slice(data, pos + 4, pos + 8),
                                   data |-> Slice(data, pos + 8,
                                                  pos + 8 + (size.lo - 8))]))

read_atoms(data, pos, atoms) ==
    IF pos >= Len(data) THEN [ok |-> TRUE, atoms |-> atoms]
    ELSE IF pos + 4 > Len(data) THEN [ok |-> FALSE, atoms |-> atoms]
    ELSE read_atom(data, pos, read_u32(Slice(data, pos, pos + 4)), atoms)

\* the outcome of a step: "ok", "err" or "panic" (a slice out of range)
Step(outcome, st) == [outcome |-> outcome, st |-> st]

\* the stsd atoms under the stbl atoms of a minf atom: the last one found,
\* and whether every read succeeded. inner holds the atoms of each stbl
\* atom, found the places of the stsd atoms in them
StsdFound(ok, inner, found) ==
    [ok |-> ok,
     stsd |-> { inner[p[1]].atoms[p[2]].data :
                    p \in { p \in found :
                                \A q \in found :
                                    q[1] < p[1] \/ (q[1] = p[1] /\ q[2] <= p[2]) } }]

StsdInner(ok, stbls, inner) ==
    StsdFound(ok /\ \A n \in stbls : inner[n].ok, inner,
              UNION { { << n, k >> : k \in { k \in 1..Len(inner[n].atoms) :
                                                inner[n].atoms[k].kind = Stsd } } :
                      n \in stbls })

StsdChildren(children, stbls) ==
    StsdInner(children.ok, stbls,
              [n \in stbls |-> read_atoms(children.atoms[n].data, 0, << >>)])

StsdUnder(children) ==
    StsdChildren(children,
                 { n \in 1..Len(children.atoms) : children.atoms[n].kind = Stbl })

MinfStsd(minf) == StsdUnder(read_atoms(minf, 0, << >>))

\* the loop of parse_media over the atoms of an mdia atom
RECURSIVE MediaLoop(_, _, _)
\* the mdhd arm: timescale and duration at the offsets of the version
MdhdAt(data, timescale_offset, duration_offset, atoms, n, st) ==
    IF duration_offset + 4 > Len(data) THEN Step("panic", st)
    ELSE MediaLoop(atoms, n + 1,
                   [st EXCEPT
                      !.timescale = Some(read_u32(Slice(data, timescale_offset,
                                                        timescale_offset + 4))),
                      !.duration = Some(read_u32(Slice(data, duration_offset,
                                                       duration_offset + 4)))])

\* the minf arm
AfterMinf(minf, atoms, n, st) ==
    IF ~minf.ok THEN Step("err", st)
    ELSE MediaLoop(atoms, n + 1,
                   IF minf.stsd = None THEN st
                   ELSE [st EXCEPT !.stsd_data = minf.stsd])

MediaAtom(atom, atoms, n, st) ==
    IF atom.kind = Hdlr
    THEN MediaLoop(atoms, n + 1,
                   IF Len(atom.data) >= 12
                   THEN [st EXCEPT !.hdlr_type = Some(Slice(atom.data, 8, 12))]
                   ELSE st)
    ELSE IF atom.kind = Mdhd
    THEN IF atom.data = << >> THEN Step("err", st)
         ELSE IF atom.data[1] = 1 THEN MdhdAt(atom.data, 20, 24, atoms, n, st)
         ELSE MdhdAt(atom.data, 12, 16, atoms, n, st)
    ELSE IF atom.kind = Minf
    THEN AfterMinf(MinfStsd(atom.data), atoms, n, st)
    ELSE MediaLoop(atoms, n + 1, st)

MediaLoop(atoms, n, st) ==
    IF n > Len(atoms) THEN Step("ok", st) ELSE MediaAtom(atoms[n], atoms, n, st)

\* ParsedTrack
ParsedTrack(kind, codec, duration) ==
    [kind |-> kind, codec |-> codec, duration |-> duration]

\* the track parse_media returns when it has no handler or no entry
UnknownTrack == ParsedTrack("Unknown", "Unknown", u32(0))

\* parse_media, the sample entry of the stsd atom
ParseEntry(handler, entry_data, duration) ==
    IF handler = Vide
    THEN IF Len(entry_data) < 36 THEN Step("panic", UnknownTrack)
         ELSE Step("ok", ParsedTrack("Video", VideoCodec(Slice(entry_data, 4, 8)),
                                     duration))
    ELSE IF handler = Soun
    THEN IF Len(entry_data) < 28 THEN Step("panic", UnknownTrack)
         ELSE Step("ok", ParsedTrack("Audio", "Unknown", duration))
    ELSE Step("ok", UnknownTrack)

\* parse_media, the stsd atom once its entry size is read
ParseStsdEntry(handler, stsd, entry_size, duration) ==
    IF entry_size.hi > 0 \/ entry_size.lo + 8 > Len(stsd)
    THEN Step("err", UnknownTrack)
    ELSE IF 12 + entry_size.lo > Len(stsd) \/ entry_size.lo < 8
    THEN Step("panic", UnknownTrack)
    ELSE ParseEntry(handler, Slice(stsd, 12, 12 + entry_size.lo), duration)

\* parse_media, the stsd atom
ParseStsd(handler, stsd, duration) ==
    IF Len(stsd) < 16 THEN Step("err", UnknownTrack)
    ELSE IF read_u32(Slice(stsd, 4, 8)) = u32(0) THEN Step("ok", UnknownTrack)
    ELSE ParseStsdEntry(handler, stsd, read_u32(Slice(stsd, 8, 12)), duration)

\* `duration.or(tk_duration).unwrap_or(0)`
DurationOr(duration, tk_duration) ==
    IF duration # None THEN CHOOSE d \in duration : TRUE
    ELSE IF tk_duration # None THEN CHOOSE d \in tk_duration : TRUE
    ELSE u32(0)

\* parse_media after its loop
AfterMediaLoop(read_ok, loop, tk_duration) ==
    IF loop.outcome # "ok" THEN Step(loop.outcome, UnknownTrack)
    ELSE IF ~read_ok THEN Step("err", UnknownTrack)
    ELSE IF loop.st.hdlr_type = None THEN Step("ok", UnknownTrack)
    ELSE IF loop.st.stsd_data = None THEN Step("err", UnknownTrack)
    ELSE ParseStsd(CHOOSE h \in loop.st.hdlr_type : TRUE,
                   CHOOSE d \in loop.st.stsd_data : TRUE,
                   DurationOr(loop.st.duration, tk_duration))

MediaRead(read, tk_duration) ==
    AfterMediaLoop(read.ok,
                   MediaLoop(read.atoms, 1,
                             [hdlr_type |-> None, timescale |-> None,
                              duration |-> None, stsd_data |-> None]),
                   tk_duration)

\* parse_media(data, tk_timescale, tk_duration): the outcome and, when ok,
\* the parsed track in st
parse_media(data, tk_timescale, tk_duration) ==
    MediaRead(read_atoms(data, 0, << >>), tk_duration)

\* the loop of collect_trak over the atoms of a trak atom
RECURSIVE TrakLoop(_, _, _)
\* the tkhd arm: timescale and duration at the offsets of the version
TkhdAt(data, timescale_offset, duration_offset, atoms, n, st) ==
    IF duration_offset + 4 > Len(data) THEN Step("panic", st)
    ELSE TrakLoop(atoms, n + 1,
                  [st EXCEPT
                     !.tkhd_timescale = Some(read_u32(Slice(data, timescale_offset,
                                                            timescale_offset + 4))),
                     !.tkhd_duration = Some(read_u32(Slice(data, duration_offset,
                                                           duration_offset + 4)))])

TrakAtom(atom, atoms, n, st) ==
    IF atom.kind = Tkhd
    THEN IF atom.data = << >> THEN Step("err", st)
         ELSE IF atom.data[1] = 1 THEN TkhdAt(atom.data, 20, 28, atoms, n, st)
         ELSE TkhdAt(atom.data, 12, 24, atoms, n, st)
    ELSE IF atom.kind = Mdia
    THEN TrakLoop(atoms, n + 1, [st EXCEPT !.mdia_data = Some(atom.data)])
    ELSE TrakLoop(atoms, n + 1, st)

TrakLoop(atoms, n, st) ==
    IF n > Len(atoms) THEN Step("ok", st) ELSE TrakAtom(atoms[n], atoms, n, st)

\* collect_trak once the media is parsed: a video track is kept (the audio
\* track is not followed)
AfterMedia(track, collector) ==
    IF track.outcome # "ok" THEN Step(track.outcome, collector)
    ELSE IF track.st.kind = "Video"
    THEN Step("ok", [collector EXCEPT !.video = Some(track.st)])
    ELSE Step("ok", collector)

\* collect_trak after its loop
AfterTrakLoop(read_ok, loop, collector) ==
    IF loop.outcome # "ok" THEN Step(loop.outcome, collector)
    ELSE IF ~read_ok \/ loop.st.mdia_data = None THEN Step("err", collector)
    ELSE AfterMedia(parse_media(CHOOSE d \in loop.st.mdia_data : TRUE,
                                loop.st.tkhd_timescale, loop.st.tkhd_duration),
                    collector)

TrakRead(read, collector) ==
    AfterTrakLoop(read.ok,
                  TrakLoop(read.atoms, 1,
                           [tkhd_timescale |-> None, tkhd_duration |-> None,
                            mdia_data |-> None]),
                  collector)

\* collect_trak(data, collector): the collector holds the video track, if
\* one was parsed
collect_trak(data, collector) == TrakRead(read_atoms(data, 0, << >>), collector)

\* a loop goes on with the collector of a step that is ok, and ends with
\* a step that is not
RECURSIVE MoovLoop(_, _, _)
AfterTrak(trak, atoms, n) ==
    IF trak.outcome # "ok" THEN trak ELSE MoovLoop(atoms, n + 1, trak.st)

\* collect_moov(data, collector), from its n-th atom on
MoovLoop(atoms, n, collector) ==
    IF n > Len(atoms) THEN Step("ok", collector)
    ELSE IF atoms[n].kind = Trak
    THEN AfterTrak(collect_trak(atoms[n].data, collector), atoms, n)
    ELSE MoovLoop(atoms, n + 1, collector)

\* a loop over atoms of which the last read failed: the error of the read
\* comes after the atoms before it
AfterAtoms(read_ok, loop, collector) ==
    IF loop.outcome = "ok" /\ ~read_ok THEN Step("err", collector) ELSE loop

MoovRead(read, collector) ==
    AfterAtoms(read.ok, MoovLoop(read.atoms, 1, collector), collector)

collect_moov(data, collector) == MoovRead(read_atoms(data, 0, << >>), collector)

\* the loop of Mp4Demuxer::demux over the top-level atoms
RECURSIVE DemuxLoop(_, _, _)
AfterMoov(moov, atoms, n) ==
    IF moov.outcome # "ok" THEN moov ELSE DemuxLoop(atoms, n + 1, moov.st)

DemuxLoop(atoms, n, collector) ==
    IF n > Len(atoms) THEN Step("ok", collector)
    ELSE IF atoms[n].kind = Moov
    THEN AfterMoov(collect_moov(atoms[n].data, collector), atoms, n)
    ELSE DemuxLoop(atoms, n + 1, collector)

\* Mp4Demuxer::demux after its loop: the streams when the outcome is ok
Demuxed(loop) ==
    IF loop.outcome # "ok"
    THEN [outcome |-> loop.outcome, streams |-> MediaStreams_default]
    ELSE [outcome |-> "ok",
          streams |->
              [MediaStreams_default EXCEPT
                   !.video = { VideoStream(video.codec,
                                           FrameRate(u32(0),
                                                     u32_max(video.duration, u32(1))),
                                           << >>) : video \in loop.st.video }]]

DemuxRead(read) ==
    Demuxed(AfterAtoms(read.ok, DemuxLoop(read.atoms, 1, [video |-> None]),
                       [video |-> None]))

\* demux_media(data): Mp4Demuxer::new(data).demux()
demux_media(data) == DemuxRead(read_atoms(data, 0, << >>))

\* ---------------------------------------------------------------------
\* stages/video.rs: VideoDecodeStage
\* ---------------------------------------------------------------------

\* the first frame of a stream, if any
first(frames) == IF frames = << >> THEN None ELSE Some(frames[1])

\* the metadata VideoDecodeStage::run leaves for a video stream
VideoMetadata(metadata, video_stream) ==
    Put(IF first(video_stream.frames) = None
        THEN Put(metadata, "video.frame_count", JNumber(Len(video_stream.frames)))
        ELSE Put(Put(Put(metadata, "video.frame_count",
                         JNumber(Len(video_stream.frames))),
                     "video.width", JNumber(video_stream.frames[1].width)),
                 "video.height", JNumber(video_stream.frames[1].height)),
        "video.codec", JString(<< video_stream.codec >>))

\* VideoDecodeStage::run after the decoding: demux is the outcome of
\* demux_media, annex_b whether decode_annex_b was called
AfterDecode(decoded, demux, annex_b, metadata) ==
    IF decoded.outcome = "panic"
    THEN [outcome |-> "panic", err |-> NoLabel, demux |-> demux,
          annex_b |-> annex_b, metadata |-> metadata,
          media |-> MediaStreams_default]
    ELSE IF decoded.outcome = "err"
    THEN [outcome |-> "err", err |-> "failed to decode H.264 Annex B stream",
          demux |-> demux, annex_b |-> annex_b, metadata |-> metadata,
          media |-> MediaStreams_default]
    ELSE IF decoded.streams.video = None
    THEN [outcome |-> "err", err |-> "no decodable video stream found",
          demux |-> demux, annex_b |-> annex_b, metadata |-> metadata,
          media |-> MediaStreams_default]
    ELSE [outcome |-> "ok", err |-> NoLabel, demux |-> demux,
          annex_b |-> annex_b,
          metadata |-> VideoMetadata(metadata,
                                     CHOOSE v \in decoded.streams.video : TRUE),
          media |-> decoded.streams]

\* VideoDecodeStage::run with the streams of the demuxer: decode_annex_b
\* runs when they hold no video stream or one without frames
WithMedia(media, demux, data, metadata, overflow_checks) ==
    IF \A v \in media.video : v.frames = << >>
    THEN AfterDecode(decode_annex_b(data, media, overflow_checks), demux, TRUE,
                     metadata)
    ELSE AfterDecode([outcome |-> "ok", err |-> NoLabel, streams |-> media],
                     demux, FALSE, metadata)

\* VideoDecodeStage::run after demux_media: its error is absorbed
AfterDemux(demux, data, metadata, overflow_checks) ==
    IF demux.outcome = "panic"
    THEN [outcome |-> "panic", err |-> NoLabel, demux |-> demux.outcome,
          annex_b |-> FALSE, metadata |-> metadata,
          media |-> MediaStreams_default]
    ELSE WithMedia(IF demux.outcome = "ok" THEN demux.streams
                   ELSE MediaStreams_default,
                   demux.outcome, data, metadata, overflow_checks)

\* VideoDecodeStage::run on an artifact with these bytes and metadata:
\* the outcome, whether decode_annex_b was called, and the metadata and
\* media of the artifact afterwards
VideoDecodeStage_run(data, metadata, overflow_checks) ==
    AfterDemux(demux_media(data), data, metadata, overflow_checks)

\* ---------------------------------------------------------------------
\* Runs of the video_decode stage on container and Annex B bytes
\* ---------------------------------------------------------------------

MaxUnits == 1

\* the bytes of an atom with less than 248 bytes of data
Atom(kind, data) == << 0, 0, 0, 8 + Len(data) >> \o kind \o data

\* n bytes of data that start with the version byte
Versioned(version, n) == [i \in 1..n |-> IF i = 1 THEN version ELSE 2]

HdlrVide == Atom(Hdlr, Versioned(0, 8) \o Vide)

\* an stsd atom with `have` bytes of a sample entry that says it has 36
SampleEntry(have) ==
    Atom(Stsd, << 0, 2, 2, 2,  2, 2, 2, 2,  0, 0, 0, 36 >>
               \o SubSeq(<< 2, 2, 2, 2, 97, 118, 99, 49 >> \o Versioned(2, 28), 1, have))

Track(atoms) == Atom(Moov, Atom(Trak, atoms))

\* what the file starts with: nothing, an ftyp atom, a movie with one
\* H.264 video track, movies whose tkhd, mdhd or stsd atom is cut short or
\* empty, a track without media, and an atom size below 8
ContainerChoices ==
    { << >>,
      Atom(<< 102, 116, 121, 112 >>, << 105, 115, 111, 109 >>),
      Track(Atom(Tkhd, Versioned(0, 28))
            \o Atom(Mdia, HdlrVide \o Atom(Mdhd, Versioned(0, 20))
                          \o Atom(Minf, Atom(Stbl, SampleEntry(36))))),
      Track(Atom(Tkhd, Versioned(0, 4))),
      Track(Atom(Tkhd, << >>)),
      Track(Atom(Mdia, HdlrVide \o Atom(Mdhd, Versioned(1, 20)))),
      Track(Atom(Mdia, HdlrVide \o Atom(Minf, Atom(Stbl, SampleEntry(32))))),
      Track(<< >>),
      << 0, 0, 0, 4 >> \o Moov }

Mdat == << 109, 100, 97, 116 >>

\* VideoDecodeStage::run on a file that holds a container, Annex B units
\* (bare or inside an mdat atom), or both
VideoDecodeRun ==
    /\ call.op = "none"
    /\ \E container \in ContainerChoices, units \in SeqsUpTo(NalChoices, MaxUnits),
          in_mdat \in BOOLEAN, overflow_checks \in BOOLEAN :
           LET stream == AnnexB(units) \o << 0, 0, 1 >>
               data == container \o (IF in_mdat THEN Atom(Mdat, stream) ELSE stream)
           IN  call' = [op |-> "video_decode", data |-> data,
                        overflow_checks |-> overflow_checks,
                        result |-> VideoDecodeStage_run(data, EmptyMap, overflow_checks)]
    /\ UNCHANGED run

SpecVideoStage == InitVideo /\ [][VideoDecodeRun]_vars

\* C27: video_decode calls decode_annex_b on the same bytes exactly when
\* the demuxer failed, found no video stream or found one without frames;
\* a failure of the demuxer (a tkhd, mdhd or stsd atom cut short) is
\* absorbed: it neither aborts the stage nor decides its result.
C27_DemuxFallback ==
    call.op = "video_decode" =>
        LET demux == demux_media(call.data) IN
        /\ call.result.demux # "panic"
        /\ call.result.annex_b =
               (\/ demux.outcome # "ok"
                \/ \A v \in demux.streams.video : v.frames = << >>)
        /\ demux.outcome # "ok" =>
               call.result.outcome =
                   decode_annex_b(call.data, MediaStreams_default,
                                  call.overflow_checks).outcome

\* C29: when video_decode succeeds the artifact has a video stream with at
\* least one frame, video.frame_count counts its frames and video.codec is
\* "H264": the demuxer emits no frames, so decode_annex_b ran and put its
\* stream in the place of the demuxer's.
C29_DecodedStream ==
    (call.op = "video_decode" /\ call.result.outcome = "ok") =>
        /\ call.result.annex_b
        /\ \A v \in demux_media(call.data).streams.video : v.frames = << >>
        /\ \E video \in call.result.media.video :
             /\ call.result.media.video = {video}
             /\ Len(video.frames) >= 1
             /\ video.codec = "H264"
             /\ \A n \in 1..Len(video.frames) :
                    video.frames[n].keyframe \in BOOLEAN
             /\ "video.frame_count" \in DOMAIN call.result.metadata
             /\ call.result.metadata["video.frame_count"] = JNumber(Len(video.frames))
             /\ "video.codec" \in DOMAIN call.result.metadata
             /\ call.result.metadata["video.codec"] = JString(<< "H264" >>)

\* a successful run on a movie with a video track whose frames are in an
\* mdat atom
C29_Witness ==
    /\ call.op = "video_decode"
    /\ call.result.outcome = "ok"
    /\ call.result.demux = "ok"
    /\ demux_media(call.data).streams.video # None
    /\ call.result.metadata["video.frame_count"] = JNumber(1)

====
